---- MODULE Spec2Model ----
(***************************************************************************)
(* A model of excalidraw-tools: synthesis of an element graph from a       *)
(* compact spec (build.py), extraction of a compact spec from an element   *)
(* graph (spec.py), the label-addressed edits (edit.py), the validator     *)
(* (validate.py) and the shared helpers (lib.py).                          *)
(*                                                                         *)
(* Representation of Python values                                         *)
(*  - a dict is a record; an optional key is a key missing from DOMAIN;    *)
(*  - a list is a sequence;                                                *)
(*  - geometry (x, y, width, height, points) is Python float; every such   *)
(*    number is held as an integer count of 1/Q units (Q = 4), which is    *)
(*    exact for the halvings the code performs on integer inputs;          *)
(*    a fixedPoint fraction is held the same way (0.5 is 2, 1 is 4);       *)
(*  - text content is a sequence of one-character strings, so that         *)
(*    lower(), strip() and substring search are computed, not assumed;     *)
(*  - an order index is the sequence of its character codes;               *)
(*  - None is the record None where a dict may stand, the string NoId      *)
(*    where a string may stand and the empty sequence where a list or a    *)
(*    text may stand.                                                      *)
(***************************************************************************)
EXTENDS Integers, Sequences, FiniteSets, TLC

VARIABLES
    spec,      \* the compact spec handed to build
    doc,       \* the document on disk (NoDoc before a build / after a failed one)
    pc,        \* "start", "built", "failed", "extracted"
    out,       \* the compact spec last extracted by diagram_to_spec
    prev,      \* doc.elements before the last operation
    last,      \* the last operation and its arguments
    nops,      \* number of edit operations applied so far
    now,       \* the clock read by now_ms()
    fac        \* the IdFactory of the allocator specification

vars == <<spec, doc, pc, out, prev, last, nops, now, fac>>

(***************************************************************************)
(* Python values                                                           *)
(***************************************************************************)
None == [none |-> TRUE]
NoId == "None"
NoPoint == <<>>
NoErr == "ok"

Q == 4
Float(n) == n * Q
Half(v) == v \div 2
Abs(v) == IF v < 0 THEN -v ELSE v
Max2(a, b) == IF a >= b THEN a ELSE b
Min2(a, b) == IF a <= b THEN a ELSE b

Get(d, k, default) == IF k \in DOMAIN d THEN d[k] ELSE default

\* Truthiness of an id-valued slot (`if container_id:`): None and "" are false.
TruthyId(v) == v # NoId /\ v # ""

RECURSIVE SeqMax(_)
SeqMax(s) == IF Len(s) = 1 THEN s[1] ELSE Max2(s[1], SeqMax(Tail(s)))
RECURSIVE SeqMin(_)
SeqMin(s) == IF Len(s) = 1 THEN s[1] ELSE Min2(s[1], SeqMin(Tail(s)))

(***************************************************************************)
(* Text: str.lower, str.strip, `a in b`                                    *)
(***************************************************************************)
LowerChar(c) ==
    CASE c = "A" -> "a"
      [] c = "B" -> "b"
      [] c = "C" -> "c"
      [] c = "X" -> "x"
      [] OTHER -> c
Lower(s) == [i \in 1..Len(s) |-> LowerChar(s[i])]
IsSpace(c) == c = " "
RECURSIVE LStrip(_)
LStrip(s) == IF s # <<>> /\ IsSpace(s[1]) THEN LStrip(Tail(s)) ELSE s
RECURSIVE RStrip(_)
RStrip(s) ==
    IF s # <<>> /\ IsSpace(s[Len(s)]) THEN RStrip(SubSeq(s, 1, Len(s) - 1)) ELSE s
Strip(s) == RStrip(LStrip(s))
\* needle in hay
Contains(hay, needle) ==
    \E i \in 1..(Len(hay) - Len(needle) + 1) :
        SubSeq(hay, i, i + Len(needle) - 1) = needle

(***************************************************************************)
(* Order of id strings under Python's str comparison.  StrOrder lists the  *)
(* id strings of the model in character-code order ("A" < "B" < "el-...",  *)
(* digits before letters).                                                 *)
(***************************************************************************)
IdPool == <<"el-0", "el-1", "el-2", "el-3", "el-4", "el-5", "el-6", "el-7",
            "el-8", "el-9", "el-a", "el-b", "el-c", "el-d", "el-e", "el-f">>
StrOrder == <<"A", "B", "C">> \o IdPool
StrRank(s) == CHOOSE i \in 1..Len(StrOrder) : StrOrder[i] = s
(***************************************************************************)
(* lib.py: index_for_rank                                                  *)
(***************************************************************************)
INDEX_CHARS_LEN == 62
\* character code of INDEX_CHARS[i]: "0".."9", "A".."Z", "a".."z"
IndexChar(i) == IF i < 10 THEN 48 + i ELSE IF i < 36 THEN 65 + (i - 10) ELSE 97 + (i - 36)
CodeA == 97
CodeB == 98

RECURSIVE IndexDigits(_)
\* the `while n:` loop followed by reversed(out): most significant digit first
IndexDigits(n) ==
    IF n = 0 THEN <<>>
    ELSE Append(IndexDigits(n \div INDEX_CHARS_LEN), IndexChar(n % INDEX_CHARS_LEN))

index_for_rank(rank) ==
    IF rank < INDEX_CHARS_LEN THEN <<CodeA, IndexChar(rank)>>
    ELSE <<CodeB>> \o IndexDigits(rank)

\* ordinary lexicographic comparison of two strings given as code sequences
RECURSIVE LexLess(_, _)
LexLess(a, b) ==
    IF b = <<>> THEN FALSE
    ELSE IF a = <<>> THEN TRUE
    ELSE IF a[1] # b[1] THEN a[1] < b[1]
    ELSE LexLess(Tail(a), Tail(b))

(***************************************************************************)
(* lib.py: IdFactory.  random.Random is a seeded deterministic generator;  *)
(* it is modelled by a full-period linear congruential generator over the  *)
(* id pool, so that equal seeds give equal streams and random_id can draw  *)
(* an id that is already taken.                                            *)
(***************************************************************************)
RngMod == Len(IdPool)
RngStep(s) == (5 * s + 3) % RngMod

IdFactory(seed, start_index, existing_ids) ==
    [rng |-> seed % RngMod, next_rank |-> start_index, ids |-> existing_ids]

next_index(f) ==
    [v |-> index_for_rank(f.next_rank), f |-> [f EXCEPT !.next_rank = @ + 1]]

nonce(f) ==
    LET r == RngStep(f.rng) IN [v |-> r + 1, f |-> [f EXCEPT !.rng = r]]

\* One pass of the `while True` loop per unfolding: sample, test, resample.
RECURSIVE random_id(_)
\* mutant: the sampled value is returned without the membership test
random_idNoCheck(f) ==
    LET r == RngStep(f.rng)
        value == IdPool[r + 1]
    IN [v |-> value, f |-> [f EXCEPT !.rng = r, !.ids = @ \cup {value}]]

random_id(f) ==
    LET r == RngStep(f.rng)
        value == IdPool[r + 1]
    IN IF value \notin f.ids
       THEN [v |-> value, f |-> [f EXCEPT !.rng = r, !.ids = @ \cup {value}]]
       ELSE random_id([f EXCEPT !.rng = r])

reserve_id(f, value) ==
    IF value \in f.ids
    THEN [err |-> "duplicate element id", f |-> f]
    ELSE [err |-> NoErr, f |-> [f EXCEPT !.ids = @ \cup {value}]]

(***************************************************************************)
(* lib.py: element constructors                                            *)
(***************************************************************************)
DEFAULT_APP_STATE ==
    [gridSize |-> 20, gridStep |-> 5, gridModeEnabled |-> FALSE,
     viewBackgroundColor |-> "#ffffff"]

BASE_REQUIRED_FIELDS ==
    {"id", "type", "x", "y", "width", "height", "angle", "strokeColor",
     "backgroundColor", "fillStyle", "strokeWidth", "strokeStyle", "roughness",
     "opacity", "groupIds", "frameId", "index", "roundness", "seed", "version",
     "versionNonce", "isDeleted", "boundElements", "updated", "link", "locked"}
TEXT_REQUIRED_FIELDS ==
    {"text", "fontSize", "fontFamily", "textAlign", "verticalAlign",
     "containerId", "originalText", "autoResize"}
ARROW_REQUIRED_FIELDS ==
    {"points", "startBinding", "endBinding", "startArrowhead", "endArrowhead",
     "elbowed"}

ROUNDNESS_TYPES == {"rectangle", "ellipse", "diamond", "text", "line"}
ROUNDNESS_BY_TYPE(etype) ==
    CASE etype = "rectangle" -> [type |-> 3]
      [] etype \in {"ellipse", "diamond", "line"} -> [type |-> 2]
      [] OTHER -> None

EDGES == <<"top", "bottom", "left", "right">>
EdgeNames == {"top", "bottom", "left", "right"}
EDGE_TO_FIXED_POINT(edge) ==
    CASE edge = "top" -> <<Half(Q), 0>>
      [] edge = "bottom" -> <<Half(Q), Q>>
      [] edge = "left" -> <<0, Half(Q)>>
      [] edge = "right" -> <<Q, Half(Q)>>
FIXED_POINT_TO_EDGE(key) ==
    CASE key = <<Half(Q), 0>> -> "top"
      [] key = <<Half(Q), Q>> -> "bottom"
      [] key = <<0, Half(Q)>> -> "left"
      [] key = <<Q, Half(Q)>> -> "right"
      [] OTHER -> NoId

DEFAULT_STROKE == "#1e1e1e"
TRANSPARENT == "transparent"

new_document(elements) ==
    [type |-> "excalidraw", version |-> 2, source |-> "https://excalidraw.com",
     elements |-> elements, appState |-> DEFAULT_APP_STATE, files |-> <<>>]

\* touch(element, factory): updated, version + 1, fresh versionNonce
touch(elem, f, ts) ==
    LET n == nonce(f)
    IN [elem |-> [elem EXCEPT !.updated = ts, !.version = @ + 1, !.versionNonce = n.v],
        f |-> n.f]

\* kw: stroke, background, stroke_width, stroke_style, roughness, element_id
ShapeKw ==
    [stroke |-> DEFAULT_STROKE, background |-> TRANSPARENT, stroke_width |-> 2,
     stroke_style |-> "solid", roughness |-> 1, element_id |-> NoId]

make_shape(elements, ids, etype, x, y, width, height, kw, ts) ==
    LET roundness == IF etype = "arrow" THEN [type |-> 2] ELSE ROUNDNESS_BY_TYPE(etype)
        res == IF kw.element_id # NoId THEN reserve_id(ids, kw.element_id)
               ELSE [err |-> NoErr, f |-> ids]
        idr == IF kw.element_id # NoId THEN [v |-> kw.element_id, f |-> res.f]
               ELSE random_id(res.f)
        ix == next_index(idr.f)
        sd == nonce(ix.f)
        vn == nonce(sd.f)
        elem == [id |-> idr.v, type |-> etype, x |-> x, y |-> y, width |-> width,
                 height |-> height, angle |-> 0, strokeColor |-> kw.stroke,
                 backgroundColor |-> kw.background, fillStyle |-> "solid",
                 strokeWidth |-> kw.stroke_width, strokeStyle |-> kw.stroke_style,
                 roughness |-> kw.roughness, opacity |-> 100, groupIds |-> <<>>,
                 frameId |-> None, index |-> ix.v, roundness |-> roundness,
                 seed |-> sd.v, version |-> 1, versionNonce |-> vn.v,
                 isDeleted |-> FALSE, boundElements |-> <<>>, updated |-> ts,
                 link |-> None, locked |-> FALSE]
    IN IF res.err # NoErr
       THEN [err |-> res.err, elements |-> elements, ids |-> ids, elem |-> None]
       ELSE [err |-> NoErr, elements |-> Append(elements, elem), ids |-> vn.f,
             elem |-> elem]

\* the text fields that make_text lays over the base element made by make_shape
TextOf(r, content, kw) ==
    LET text == [text |-> content, fontSize |-> kw.font_size,
                 fontFamily |-> kw.font_family, textAlign |-> "center",
                 verticalAlign |-> IF TruthyId(kw.container_id) THEN "middle" ELSE "top",
                 containerId |-> kw.container_id, originalText |-> content,
                 autoResize |-> TRUE]
                @@ [r.elem EXCEPT !.roundness = None]
    IN [err |-> NoErr, ids |-> r.ids, elem |-> text,
        elements |-> [r.elements EXCEPT ![Len(r.elements)] = text]]

\* kw: container_id, font_size, font_family, stroke
make_text(elements, ids, content, x, y, width, height, kw, ts) ==
    TextOf(make_shape(elements, ids, "text", x, y, width, height,
                      [ShapeKw EXCEPT !.stroke = kw.stroke], ts),
           content, kw)

\* normalize_bound_elements(element).append(item), on the element at position i
AppendBound(elements, i, item) ==
    [elements EXCEPT ![i].boundElements = Append(@, item)]

TEXT_HEIGHT == 25

\* mutant: the container does not record the text in boundElements
LabelBoundNone(r, si) == r

\* normalize_bound_elements(shape).append({"id": text["id"], "type": "text"})
LabelBound(r, si) ==
    [r EXCEPT !.elements = AppendBound(@, si, [id |-> r.elem.id, type |-> "text"])]

\* add_label on the shape at position si
add_label(elements, ids, si, label, font_size, font_family, ts) ==
    LabelBound(
        make_text(elements, ids, label, elements[si].x + Float(5),
                  elements[si].y + Half(elements[si].height - Float(TEXT_HEIGHT)),
                  elements[si].width - Float(10), Float(TEXT_HEIGHT),
                  [container_id |-> elements[si].id, font_size |-> font_size,
                   font_family |-> font_family, stroke |-> elements[si].strokeColor],
                  ts),
        si)

(***************************************************************************)
(* lib.py: geometry and routing                                            *)
(***************************************************************************)
edge_point(shape, edge) ==
    CASE edge = "top" -> <<shape.x + Half(shape.width), shape.y>>
      [] edge = "bottom" -> <<shape.x + Half(shape.width), shape.y + shape.height>>
      [] edge = "left" -> <<shape.x, shape.y + Half(shape.height)>>
      [] edge = "right" -> <<shape.x + shape.width, shape.y + Half(shape.height)>>

SNAP == 10

\* mutant: an offset of exactly 10 still counts as aligned
route_pointsInclusive(source_edge, target_edge, dx, dy) ==
    IF source_edge = "bottom" /\ target_edge = "top"
    THEN (IF Abs(dx) <= Float(SNAP) THEN <<<<0, 0>>, <<0, dy>>>>
          ELSE <<<<0, 0>>, <<dx, 0>>, <<dx, dy>>>>)
    ELSE IF source_edge = "right" /\ target_edge = "left"
    THEN (IF Abs(dy) <= Float(SNAP) THEN <<<<0, 0>>, <<dx, 0>>>>
          ELSE <<<<0, 0>>, <<0, dy>>, <<dx, dy>>>>)
    ELSE IF source_edge = "right" /\ target_edge = "top"
    THEN <<<<0, 0>>, <<dx, 0>>, <<dx, dy>>>>
    ELSE IF source_edge = "left" /\ target_edge = "right"
    THEN (IF Abs(dy) <= Float(SNAP) THEN <<<<0, 0>>, <<dx, 0>>>>
          ELSE <<<<0, 0>>, <<0, dy>>, <<dx, dy>>>>)
    ELSE <<<<0, 0>>, <<dx, dy>>>>

route_points(source_edge, target_edge, dx, dy) ==
    IF source_edge = "bottom" /\ target_edge = "top"
    THEN (IF Abs(dx) < Float(SNAP) THEN <<<<0, 0>>, <<0, dy>>>>
          ELSE <<<<0, 0>>, <<dx, 0>>, <<dx, dy>>>>)
    ELSE IF source_edge = "right" /\ target_edge = "left"
    THEN (IF Abs(dy) < Float(SNAP) THEN <<<<0, 0>>, <<dx, 0>>>>
          ELSE <<<<0, 0>>, <<0, dy>>, <<dx, dy>>>>)
    ELSE IF source_edge = "right" /\ target_edge = "top"
    THEN <<<<0, 0>>, <<dx, 0>>, <<dx, dy>>>>
    ELSE IF source_edge = "left" /\ target_edge = "right"
    THEN (IF Abs(dy) < Float(SNAP) THEN <<<<0, 0>>, <<dx, 0>>>>
          ELSE <<<<0, 0>>, <<0, dy>>, <<dx, dy>>>>)
    ELSE <<<<0, 0>>, <<dx, dy>>>>

\* mutant: the bounding box passed to make_shape is kept
recalc_arrow_boundsKeep(arrow) == arrow

\* mutant: the extents are signed, the largest coordinate instead of the
\* largest magnitude
recalc_arrow_boundsSigned(arrow) ==
    LET points == IF arrow.points = <<>> THEN <<<<0, 0>>>> ELSE arrow.points
        xs == [i \in 1..Len(points) |-> points[i][1]]
        ys == [i \in 1..Len(points) |-> points[i][2]]
    IN [arrow EXCEPT !.width = SeqMax(xs), !.height = SeqMax(ys)]

recalc_arrow_bounds(arrow) ==
    LET points == IF arrow.points = <<>> THEN <<<<0, 0>>>> ELSE arrow.points
        xs == [i \in 1..Len(points) |-> points[i][1]]
        ys == [i \in 1..Len(points) |-> points[i][2]]
    IN [arrow EXCEPT !.width = Max2(Abs(SeqMin(xs)), Abs(SeqMax(xs))),
                     !.height = Max2(Abs(SeqMin(ys)), Abs(SeqMax(ys)))]

Binding(id, edge) ==
    [elementId |-> id, focus |-> 0, gap |-> 1,
     fixedPoint |-> IF edge # NoId /\ edge # "" THEN EDGE_TO_FIXED_POINT(edge) ELSE NoPoint]

\* the arrow fields that make_arrow lays over the base element made by make_shape
ArrowOf(r, points, kw) ==
    LET arrow == [startBinding |-> IF TruthyId(kw.start_id)
                                   THEN Binding(kw.start_id, kw.source_edge) ELSE None,
                  endBinding |-> IF TruthyId(kw.end_id)
                                 THEN Binding(kw.end_id, kw.target_edge) ELSE None,
                  startArrowhead |-> None, endArrowhead |-> "arrow",
                  elbowed |-> kw.elbowed]
                 @@ recalc_arrow_bounds(
                        [points |-> points] @@
                        [r.elem EXCEPT !.roundness =
                            IF kw.elbowed THEN None ELSE [type |-> 2]])
    IN [err |-> NoErr, ids |-> r.ids, elem |-> arrow,
        elements |-> [r.elements EXCEPT ![Len(r.elements)] = arrow]]

\* kw: start_id, end_id, stroke, stroke_width, elbowed, source_edge, target_edge
make_arrow(elements, ids, x, y, points, kw, ts) ==
    ArrowOf(make_shape(elements, ids, "arrow", x, y, 0, 0,
                       [ShapeKw EXCEPT !.stroke = kw.stroke,
                                       !.stroke_width = kw.stroke_width,
                                       !.roughness = IF kw.elbowed THEN 0 ELSE 1], ts),
            points, kw)

\* mutant: only the source records the arrow in boundElements
ConnectBoundSourceOnly(r, si, ti) ==
    [r EXCEPT !.elements = AppendBound(@, si, [id |-> r.elem.id, type |-> "arrow"])]

\* the two appends to boundElements at the end of connect
ConnectBound(r, si, ti) ==
    [r EXCEPT !.elements =
        AppendBound(AppendBound(@, si, [id |-> r.elem.id, type |-> "arrow"]),
                    ti, [id |-> r.elem.id, type |-> "arrow"])]

\* connect the shapes at positions si and ti; kw: source_edge, target_edge, stroke, elbowed
connect(elements, ids, si, ti, kw, ts) ==
    IF kw.source_edge \notin EdgeNames \/ kw.target_edge \notin EdgeNames
    THEN [err |-> "unsupported edge", ids |-> ids, elem |-> None, elements |-> elements]
    ELSE
    LET s == edge_point(elements[si], kw.source_edge)
        t == edge_point(elements[ti], kw.target_edge)
    IN ConnectBound(
           make_arrow(elements, ids, s[1], s[2],
               route_points(kw.source_edge, kw.target_edge, t[1] - s[1], t[2] - s[2]),
               [start_id |-> elements[si].id, end_id |-> elements[ti].id,
                stroke |-> kw.stroke, stroke_width |-> 2, elbowed |-> kw.elbowed,
                source_edge |-> kw.source_edge, target_edge |-> kw.target_edge], ts),
           si, ti)

\* positions of the elements with isDeleted false, in document order
active_elements(elements) ==
    SelectSeq([i \in 1..Len(elements) |-> i], LAMBDA i : ~elements[i].isDeleted)

\* build_id_index(elements)[id]: a later element with the same id replaces an
\* earlier one; 0 stands for a missing key
build_id_index(elements, id) ==
    IF id # NoId /\ \E i \in 1..Len(elements) : elements[i].id = id
    THEN CHOOSE i \in 1..Len(elements) :
            elements[i].id = id /\ \A j \in (i + 1)..Len(elements) : elements[j].id # id
    ELSE 0

\* position of the first active text whose containerId is container_id, else 0
text_for_container(elements, container_id) ==
    LET hits == SelectSeq(active_elements(elements),
                    LAMBDA i : elements[i].type = "text"
                               /\ elements[i].containerId = container_id)
    IN IF hits = <<>> THEN 0 ELSE hits[1]

arrow_endpoints(arrow) ==
    LET points == IF arrow.points = <<>> THEN <<<<0, 0>>, <<0, 0>>>> ELSE arrow.points
        end == points[Len(points)]
    IN <<<<arrow.x, arrow.y>>, <<arrow.x + end[1], arrow.y + end[2]>>>>

\* NoId stands for the None result; binding is a binding record or None
BindingId(binding) == IF binding = None THEN NoId ELSE binding.elementId

infer_edge_from_fixed_point(binding) ==
    IF binding = None THEN NoId
    ELSE IF Len(binding.fixedPoint) # 2 THEN NoId
    ELSE FIXED_POINT_TO_EDGE(binding.fixedPoint)

\* mutant: on a tie the last edge in the order top, bottom, left, right wins
infer_edge_by_proximityLast(shape, point) ==
    LET dist(edge) == Abs(point[1] - edge_point(shape, edge)[1])
                      + Abs(point[2] - edge_point(shape, edge)[2])
        best == CHOOSE i \in 1..4 :
                    /\ \A j \in 1..4 : dist(EDGES[i]) <= dist(EDGES[j])
                    /\ \A j \in (i + 1)..4 : dist(EDGES[j]) > dist(EDGES[i])
    IN EDGES[best]

\* first edge, in the order top, bottom, left, right, of minimal Manhattan
\* distance (list.sort is stable)
infer_edge_by_proximity(shape, point) ==
    LET dist(edge) == Abs(point[1] - edge_point(shape, edge)[1])
                      + Abs(point[2] - edge_point(shape, edge)[2])
        best == CHOOSE i \in 1..4 :
                    /\ \A j \in 1..4 : dist(EDGES[i]) <= dist(EDGES[j])
                    /\ \A j \in 1..(i - 1) : dist(EDGES[j]) > dist(EDGES[i])
    IN EDGES[best]

\* mutant: the edge is always taken by proximity, the stored fraction is ignored
InferEdgeProximity(binding, shape, point) == infer_edge_by_proximity(shape, point)

InferEdge(binding, shape, point) ==
    IF infer_edge_from_fixed_point(binding) # NoId
    THEN infer_edge_from_fixed_point(binding)
    ELSE infer_edge_by_proximity(shape, point)

\* the live element a binding resolves to: its position, or 0
Resolve(elements, binding) ==
    LET i == build_id_index(elements, BindingId(binding))
    IN IF i # 0 /\ elements[i].isDeleted THEN 0 ELSE i

reroute_arrow(arrow, elements) ==
    LET si == Resolve(elements, arrow.startBinding)
        ti == Resolve(elements, arrow.endBinding)
        ends == arrow_endpoints(arrow)
    IN IF si # 0 /\ ti # 0 THEN
         LET source_edge == InferEdge(arrow.startBinding, elements[si], ends[1])
             target_edge == InferEdge(arrow.endBinding, elements[ti], ends[2])
             s == edge_point(elements[si], source_edge)
             t == edge_point(elements[ti], target_edge)
         IN [changed |-> TRUE,
             arrow |-> recalc_arrow_bounds(
                 [arrow EXCEPT !.x = s[1], !.y = s[2],
                     !.points = route_points(source_edge, target_edge,
                                             t[1] - s[1], t[2] - s[2]),
                     !.startBinding.fixedPoint = EDGE_TO_FIXED_POINT(source_edge),
                     !.endBinding.fixedPoint = EDGE_TO_FIXED_POINT(target_edge)])]
       ELSE IF si # 0 THEN
         LET source_edge == InferEdge(arrow.startBinding, elements[si], ends[1])
             s == edge_point(elements[si], source_edge)
         IN [changed |-> TRUE,
             arrow |-> recalc_arrow_bounds(
                 [arrow EXCEPT !.x = s[1], !.y = s[2],
                     !.startBinding.fixedPoint = EDGE_TO_FIXED_POINT(source_edge)])]
       ELSE IF ti # 0 THEN
         LET target_edge == InferEdge(arrow.endBinding, elements[ti], ends[2])
             t == edge_point(elements[ti], target_edge)
             pt == <<t[1] - arrow.x, t[2] - arrow.y>>
             points == IF Len(arrow.points) < 2 THEN <<<<0, 0>>, pt>>
                       ELSE [arrow.points EXCEPT ![Len(arrow.points)] = pt]
         IN [changed |-> TRUE,
             arrow |-> recalc_arrow_bounds(
                 [arrow EXCEPT !.points = points,
                     !.endBinding.fixedPoint = EDGE_TO_FIXED_POINT(target_edge)])]
       ELSE [changed |-> FALSE, arrow |-> arrow]

(***************************************************************************)
(* lib.py: move_shape_and_dependents                                       *)
(***************************************************************************)
ArrowBoundTo(arrow, id) ==
    BindingId(arrow.startBinding) = id \/ BindingId(arrow.endBinding) = id

\* touch(elem, ids, ts) stored at position i; st = [elements, ids, moved]
TouchAt(st, i, elem, ts) ==
    LET t == touch(elem, st.ids, ts)
    IN [st EXCEPT !.elements[i] = t.elem, !.ids = t.f]

\* shape["x"] += dx; shape["y"] += dy; touch(shape)
MoveShape(st, si, dx, dy, ts) ==
    TouchAt(st, si, [st.elements[si] EXCEPT !.x = @ + dx, !.y = @ + dy], ts)

\* the bound label, if any, is moved by the same offset and touched
MoveLabel(st, si, dx, dy, ts) ==
    LET li == text_for_container(st.elements, st.elements[si].id)
    IN IF li # 0
       THEN TouchAt(st, li, [st.elements[li] EXCEPT !.x = @ + dx, !.y = @ + dy], ts)
       ELSE st

\* `if reroute_arrow(arrow, id_index): touch(arrow); moved_arrow_ids.add(arrow["id"])`
RerouteApply(st, i, r, ts) ==
    IF r.changed
    THEN [TouchAt(st, i, r.arrow, ts) EXCEPT !.moved = @ \cup {r.arrow.id}]
    ELSE st

\* one pass of the loop over active_elements(elements)
RerouteStep(st, i, shape_id, ts) ==
    IF \/ st.elements[i].isDeleted
       \/ st.elements[i].type # "arrow"
       \/ ~ArrowBoundTo(st.elements[i], shape_id)
    THEN st
    ELSE RerouteApply(st, i, reroute_arrow(st.elements[i], st.elements), ts)

RECURSIVE MoveRerouteLoop(_, _, _, _)
MoveRerouteLoop(st, i, shape_id, ts) ==
    IF i > Len(st.elements) THEN st
    ELSE MoveRerouteLoop(RerouteStep(st, i, shape_id, ts), i + 1, shape_id, ts)

\* mutant: the arrows the reroute loop handled are not skipped
BoundStepAll(st, item, dx, dy, ts) ==
    LET ai == build_id_index(st.elements, item.id)
    IN IF item.type # "arrow" \/ ai = 0 THEN st
       ELSE IF st.elements[ai].isDeleted THEN st
       ELSE TouchAt(st, ai, [st.elements[ai] EXCEPT !.x = @ + dx, !.y = @ + dy], ts)

\* one pass of the loop over shape.boundElements: an arrow listed there and
\* not rerouted is moved by the offset
BoundStep(st, item, dx, dy, ts) ==
    LET ai == build_id_index(st.elements, item.id)
    IN IF item.type # "arrow" \/ ai = 0 THEN st
       ELSE IF st.elements[ai].id \in st.moved \/ st.elements[ai].isDeleted THEN st
       ELSE TouchAt(st, ai, [st.elements[ai] EXCEPT !.x = @ + dx, !.y = @ + dy], ts)

RECURSIVE MoveBoundLoop(_, _, _, _, _, _)
MoveBoundLoop(st, bound, k, dx, dy, ts) ==
    IF k > Len(bound) THEN st
    ELSE MoveBoundLoop(BoundStep(st, bound[k], dx, dy, ts), bound, k + 1, dx, dy, ts)

MoveBound(st, si, dx, dy, ts) ==
    MoveBoundLoop(st, st.elements[si].boundElements, 1, dx, dy, ts)

\* move the shape at position si by (dx, dy); gives [elements, ids, moved]
move_shape_and_dependents(elements, si, dx, dy, ids, ts) ==
    MoveBound(
        MoveRerouteLoop(
            MoveLabel(
                MoveShape([elements |-> elements, ids |-> ids, moved |-> {}],
                          si, dx, dy, ts),
                si, dx, dy, ts),
            1, elements[si].id, ts),
        si, dx, dy, ts)

(***************************************************************************)
(* edit.py: label lookup                                                   *)
(***************************************************************************)
_build_factory(elements, seed) ==
    IdFactory(seed, Len(elements), {elements[i].id : i \in 1..Len(elements)})

\* position of the first active element whose id is container_id, else 0
ActiveContainer(elements, container_id) ==
    IF ~TruthyId(container_id) THEN 0
    ELSE LET hits == SelectSeq(active_elements(elements),
                         LAMBDA i : elements[i].id = container_id)
         IN IF hits = <<>> THEN 0 ELSE hits[1]

\* mutant: deleted texts are candidates too
MatchCandidatesAll(elements) ==
    SelectSeq([i \in 1..Len(elements) |-> i],
        LAMBDA i : elements[i].type = "text" /\ Strip(elements[i].text) # <<>>)

\* active texts whose stripped content is not empty, in document order
MatchCandidates(elements) ==
    SelectSeq(active_elements(elements),
        LAMBDA i : elements[i].type = "text" /\ Strip(elements[i].text) # <<>>)

\* mutant: the first text that contains the label wins, exact or not
_match_textFirstHit(elements, label) ==
    LET hits == SelectSeq(MatchCandidates(elements),
                    LAMBDA i : Contains(Lower(Strip(elements[i].text)),
                                        Strip(Lower(label))))
    IN IF hits # <<>>
       THEN [shape |-> ActiveContainer(elements, elements[hits[1]].containerId),
             text |-> hits[1]]
       ELSE [shape |-> 0, text |-> 0]

\* [shape, text]: positions, 0 for None
_match_text(elements, label) ==
    LET label_norm == Strip(Lower(label))
        cands == MatchCandidates(elements)
        exact == SelectSeq(cands,
                    LAMBDA i : Lower(Strip(elements[i].text)) = label_norm)
        partial == SelectSeq(cands,
                      LAMBDA i : Contains(Lower(Strip(elements[i].text)), label_norm))
    IN IF exact # <<>>
       THEN [shape |-> ActiveContainer(elements, elements[exact[1]].containerId),
             text |-> exact[1]]
       ELSE IF partial # <<>>
       THEN [shape |-> ActiveContainer(elements, elements[partial[1]].containerId),
             text |-> partial[1]]
       ELSE [shape |-> 0, text |-> 0]

\* [err, shape]
_required_shape_by_label(elements, label) ==
    LET m == _match_text(elements, label)
    IN IF m.text = 0 THEN [err |-> "could not find label", shape |-> 0]
       ELSE IF m.shape = 0
       THEN [err |-> "label is standalone text, not a shape label", shape |-> 0]
       ELSE [err |-> NoErr, shape |-> m.shape]

\* [err, text]
_required_text_by_label(elements, label) ==
    LET m == _match_text(elements, label)
    IN IF m.text = 0 THEN [err |-> "could not find label", text |-> 0]
       ELSE [err |-> NoErr, text |-> m.text]

(***************************************************************************)
(* edit.py: the edit commands.  Each takes the loaded elements, its        *)
(* arguments, the factory seed (now_ms() at construction) and the clock    *)
(* value ts, and gives [err, elements]; on an error nothing is saved.      *)
(***************************************************************************)
Failed(msg, elements) == [err |-> msg, elements |-> elements]

cmd_move(elements, label, dx, dy, seed, ts) ==
    LET factory == _build_factory(elements, seed)
        r == _required_shape_by_label(elements, label)
    IN IF r.err # NoErr THEN Failed(r.err, elements)
       ELSE [err |-> NoErr,
             elements |-> move_shape_and_dependents(elements, r.shape, dx, dy,
                                                    factory, ts).elements]

\* mutant: relabel writes text and leaves originalText as it was
cmd_relabelTextOnly(elements, label, text, seed, ts) ==
    LET factory == _build_factory(elements, seed)
        r == _required_text_by_label(elements, label)
    IN IF r.err # NoErr THEN Failed(r.err, elements)
       ELSE [err |-> NoErr,
             elements |-> [elements EXCEPT ![r.text] =
                 touch([@ EXCEPT !.text = text], factory, ts).elem]]

cmd_relabel(elements, label, text, seed, ts) ==
    LET factory == _build_factory(elements, seed)
        r == _required_text_by_label(elements, label)
    IN IF r.err # NoErr THEN Failed(r.err, elements)
       ELSE [err |-> NoErr,
             elements |-> [elements EXCEPT ![r.text] =
                 touch([@ EXCEPT !.text = text, !.originalText = text], factory, ts).elem]]

\* `if text_label and args.stroke`: the bound label takes the stroke and is touched
RecolorLabel(st, si, stroke, ts) ==
    LET li == text_for_container(st.elements, st.elements[si].id)
    IN IF li # 0 /\ TruthyId(stroke)
       THEN TouchAt(st, li, [st.elements[li] EXCEPT !.strokeColor = stroke], ts)
       ELSE st

\* the body of cmd_recolor once the label resolved to the shape at position si
RecolorShape(st, si, stroke, background, ts) ==
    RecolorLabel(
        TouchAt(st, si,
            [st.elements[si] EXCEPT
                !.strokeColor = IF TruthyId(stroke) THEN stroke ELSE @,
                !.backgroundColor = IF TruthyId(background) THEN background ELSE @],
            ts),
        si, stroke, ts)

\* r: the result of the label lookup
RecolorFound(elements, r, stroke, background, factory, ts) ==
    IF r.err # NoErr THEN Failed(r.err, elements)
    ELSE [err |-> NoErr,
          elements |-> RecolorShape([elements |-> elements, ids |-> factory],
                                    r.shape, stroke, background, ts).elements]

\* stroke, background: a colour, or NoId when the option is not given
cmd_recolor(elements, label, stroke, background, seed, ts) ==
    RecolorFound(elements, _required_shape_by_label(elements, label), stroke,
                 background, _build_factory(elements, seed), ts)

\* the loop `for elem in targets`: st = [elements, ids]
RECURSIVE DeleteLoop(_, _, _, _)
DeleteLoop(st, targets, k, ts) ==
    IF k > Len(targets) THEN st
    ELSE IF st.elements[targets[k]].isDeleted
    THEN DeleteLoop(st, targets, k + 1, ts)
    ELSE LET t == touch([st.elements[targets[k]] EXCEPT !.isDeleted = TRUE], st.ids, ts)
         IN DeleteLoop([elements |-> [st.elements EXCEPT ![targets[k]] = t.elem],
                        ids |-> t.f], targets, k + 1, ts)

\* mutant: the arrows bound to the shape are not deleted with it
DeleteTargetsNoArrows(elements, si) ==
    <<si>>
    \o SelectSeq(active_elements(elements),
          LAMBDA i : elements[i].type = "text"
                     /\ elements[i].containerId = elements[si].id)

\* the targets of a delete whose label resolved to the shape at position si
DeleteTargets(elements, si) ==
    <<si>>
    \o SelectSeq(active_elements(elements),
          LAMBDA i : elements[i].type = "text"
                     /\ elements[i].containerId = elements[si].id)
    \o SelectSeq(active_elements(elements),
          LAMBDA i : elements[i].type = "arrow"
                     /\ ArrowBoundTo(elements[i], elements[si].id))

cmd_delete(elements, label, seed, ts) ==
    LET factory == _build_factory(elements, seed)
        m == _match_text(elements, label)
    IN IF m.text = 0 THEN Failed("could not find label", elements)
       ELSE LET targets == IF m.shape # 0 THEN DeleteTargets(elements, m.shape)
                           ELSE <<m.text>>
            IN [err |-> NoErr,
                elements |-> DeleteLoop([elements |-> elements, ids |-> factory],
                                        targets, 1, ts).elements]

\* args: label, x, y, width, height, stroke, background, font_size, font_family,
\*       dashed, crisp
cmd_add_box(elements, args, seed, ts) ==
    LET factory == _build_factory(elements, seed)
        r == make_shape(elements, factory, "rectangle", Float(args.x), Float(args.y),
                 Float(args.width), Float(args.height),
                 [ShapeKw EXCEPT !.stroke = args.stroke, !.background = args.background,
                     !.stroke_style = IF args.dashed THEN "dashed" ELSE "solid",
                     !.roughness = IF args.crisp THEN 0 ELSE 1], ts)
    IN [err |-> NoErr,
        elements |-> add_label(r.elements, r.ids, Len(r.elements), args.label,
                               args.font_size, args.font_family, ts).elements]

EDGE_LABEL_DX == 35
EDGE_LABEL_DY == 10
EDGE_LABEL_W == 70
EDGE_LABEL_H == 20

\* the floating label of an arrow: a standalone text centred on half the
\* arrow's last point
EdgeLabel(elements, ids, arrow, content, font_size, font_family, stroke, ts) ==
    LET end == arrow.points[Len(arrow.points)]
        label_x == arrow.x + Half(end[1]) - Float(EDGE_LABEL_DX)
        label_y == arrow.y + Half(end[2]) - Float(EDGE_LABEL_DY)
    IN make_text(elements, ids, content, label_x, label_y, Float(EDGE_LABEL_W),
                 Float(EDGE_LABEL_H),
                 [container_id |-> NoId, font_size |-> font_size,
                  font_family |-> font_family, stroke |-> stroke], ts)

\* `if args.label`: the standalone text placed at the arrow's midpoint
ConnectLabel(r, args, ts) ==
    [err |-> NoErr,
     elements |-> IF args.label # <<>>
                  THEN EdgeLabel(r.elements, r.ids, r.elem, args.label, args.font_size,
                                 args.font_family, args.stroke, ts).elements
                  ELSE r.elements]

\* mutant: the arrow is attached to the source before the target is looked up
ConnectFoundEager(elements, src, dst, args, factory, ts) ==
    IF src.err # NoErr THEN Failed(src.err, elements)
    ELSE IF dst.err # NoErr
    THEN Failed(dst.err,
             connect(elements, factory, src.shape, src.shape,
                 [source_edge |-> args.from_edge, target_edge |-> args.to_edge,
                  stroke |-> args.stroke, elbowed |-> args.elbowed], ts).elements)
    ELSE ConnectLabel(
             connect(elements, factory, src.shape, dst.shape,
                 [source_edge |-> args.from_edge, target_edge |-> args.to_edge,
                  stroke |-> args.stroke, elbowed |-> args.elbowed], ts),
             args, ts)

\* src, dst: the results of the two label lookups
ConnectFound(elements, src, dst, args, factory, ts) ==
    IF src.err # NoErr THEN Failed(src.err, elements)
    ELSE IF dst.err # NoErr THEN Failed(dst.err, elements)
    ELSE ConnectLabel(
             connect(elements, factory, src.shape, dst.shape,
                 [source_edge |-> args.from_edge, target_edge |-> args.to_edge,
                  stroke |-> args.stroke, elbowed |-> args.elbowed], ts),
             args, ts)

\* args: from_label, to_label, from_edge, to_edge, stroke, elbowed, label,
\*       font_size, font_family
cmd_connect(elements, args, seed, ts) ==
    ConnectFound(elements, _required_shape_by_label(elements, args.from_label),
                 _required_shape_by_label(elements, args.to_label), args,
                 _build_factory(elements, seed), ts)

(***************************************************************************)
(* build.py: build(spec).  An exception is the result's err; a result with *)
(* an err carries no document.                                             *)
(*  - a list entry that is not an object is the record NotAnObject, and a  *)
(*    value that is not a list is NotAList;                                *)
(*  - an id that is not a string is the marker NotAStr; a missing id is    *)
(*    NoId (dict.get gives None).                                          *)
(***************************************************************************)
NotAList == <<[bad |-> "not a list"]>>
NotAnObject == [bad |-> "not an object"]
NotAStr == "<int>"
IsStr(v) == v # NotAStr /\ v # NoId

VALID_SHAPES == {"rectangle", "ellipse", "diamond"}

\* NoErr, or the message of the ValueError
_require_list(sp, key) ==
    LET value == Get(sp, key, <<>>)
    IN IF value = NotAList THEN "must be a list"
       ELSE IF \E i \in 1..Len(value) : value[i] = NotAnObject
       THEN "entries must be objects"
       ELSE NoErr

_read_style(sp) ==
    LET style == Get(sp, "style", [fontFamily |-> 1, roughness |-> 1])
    IN [fontFamily |-> Get(style, "fontFamily", 1), roughness |-> Get(style, "roughness", 1)]

\* mutant: any type string is accepted
NodeTypeOkAny(ntype) == TRUE

\* `ntype not in VALID_SHAPES` raises
NodeTypeOk(ntype) == ntype \in VALID_SHAPES

\* the alias of the node is recorded with the position of its shape
BuildNodeDone(st, l, alias, si) ==
    [err |-> NoErr, elements |-> l.elements, ids |-> l.ids,
     aliases |-> (alias :> si) @@ st.aliases]

\* `if label: add_label(...)`; r: the result of make_shape
BuildNodeLabel(st, r, node, style, alias, ts) ==
    IF r.err # NoErr THEN [st EXCEPT !.err = r.err]
    ELSE BuildNodeDone(st,
             IF Get(node, "label", <<>>) # <<>>
             THEN add_label(r.elements, r.ids, Len(r.elements), Get(node, "label", <<>>),
                            Get(node, "fontSize", 20),
                            Get(node, "fontFamily", style.fontFamily), ts)
             ELSE r,
             alias, Len(r.elements))

\* one pass of `for idx, node in enumerate(nodes)`;
\* st = [err, elements, ids, aliases]
\* A number of a compact spec is a plain unit integer, or, when it has a
\* fractional part, FRAC + its count of 1/Q units (which equals no integer of
\* the model).  float(n) of such a number, in 1/Q units:
FRAC == 1000000
SpecFloat(n) == IF n > FRAC \div 2 THEN n - FRAC ELSE Float(n)

BuildNode(st, node, style, ts) ==
    LET alias == Get(node, "id", NoId)
        ntype == Get(node, "type", "rectangle")
    IN IF ~IsStr(alias) \/ alias = ""
       THEN [st EXCEPT !.err = "id must be a non-empty string"]
       ELSE IF alias \in DOMAIN st.aliases
       THEN [st EXCEPT !.err = "duplicate node id"]
       ELSE IF ~NodeTypeOk(ntype)
       THEN [st EXCEPT !.err = "type must be one of"]
       ELSE BuildNodeLabel(st,
                make_shape(st.elements, st.ids, ntype,
                    SpecFloat(Get(node, "x", 0)), SpecFloat(Get(node, "y", 0)),
                    SpecFloat(Get(node, "width", 200)), SpecFloat(Get(node, "height", 80)),
                    [stroke |-> Get(node, "stroke", DEFAULT_STROKE),
                     background |-> Get(node, "background", TRANSPARENT),
                     stroke_width |-> Get(node, "strokeWidth", 2),
                     stroke_style |-> Get(node, "strokeStyle", "solid"),
                     roughness |-> Get(node, "roughness", style.roughness),
                     element_id |-> alias], ts),
                node, style, alias, ts)

\* the two checks at the head of `for idx, edge in enumerate(edges)`
BuildEdgeCheck(st, src, dst) ==
    IF ~IsStr(src) \/ src \notin DOMAIN st.aliases
    THEN "from references unknown node"
    ELSE IF ~IsStr(dst) \/ dst \notin DOMAIN st.aliases
    THEN "to references unknown node"
    ELSE NoErr

\* the elements and the factory after one edge
BuildEdgeDone(st, l) == [st EXCEPT !.elements = l.elements, !.ids = l.ids]

\* `if edge_label: make_text(...)`; r: the result of connect
BuildEdgeLabel(st, r, edge, style, ts) ==
    IF r.err # NoErr THEN [st EXCEPT !.err = r.err]
    ELSE BuildEdgeDone(st,
             IF Get(edge, "label", <<>>) # <<>>
             THEN EdgeLabel(r.elements, r.ids, r.elem, Get(edge, "label", <<>>),
                      Get(edge, "fontSize", 14),
                      Get(edge, "fontFamily", style.fontFamily),
                      Get(edge, "stroke", DEFAULT_STROKE), ts)
             ELSE r)

\* one pass of `for idx, edge in enumerate(edges)`
BuildEdge(st, edge, style, ts) ==
    IF BuildEdgeCheck(st, Get(edge, "from", NoId), Get(edge, "to", NoId)) # NoErr
    THEN [st EXCEPT !.err = BuildEdgeCheck(st, Get(edge, "from", NoId),
                                           Get(edge, "to", NoId))]
    ELSE BuildEdgeLabel(st,
             connect(st.elements, st.ids, st.aliases[edge.from], st.aliases[edge.to],
                 [source_edge |-> Get(edge, "fromEdge", "bottom"),
                  target_edge |-> Get(edge, "toEdge", "top"),
                  stroke |-> Get(edge, "stroke", DEFAULT_STROKE),
                  elbowed |-> Get(edge, "elbowed", FALSE)], ts),
             edge, style, ts)

RECURSIVE BuildNodes(_, _, _, _, _)
BuildNodes(st, nodes, i, style, ts) ==
    IF i > Len(nodes) \/ st.err # NoErr THEN st
    ELSE BuildNodes(BuildNode(st, nodes[i], style, ts), nodes, i + 1, style, ts)

RECURSIVE BuildEdges(_, _, _, _, _)
BuildEdges(st, edges, i, style, ts) ==
    IF i > Len(edges) \/ st.err # NoErr THEN st
    ELSE BuildEdges(BuildEdge(st, edges[i], style, ts), edges, i + 1, style, ts)

NoDoc == [none |-> TRUE]

\* mutant: the `updated` override of the spec is ignored
BuildDoneNoOverride(sp, st) ==
    IF st.err # NoErr THEN [err |-> st.err, doc |-> NoDoc]
    ELSE [err |-> NoErr, doc |-> new_document(st.elements)]

\* the `updated` override and new_document; st: the state after both loops
BuildDone(sp, st) ==
    IF st.err # NoErr THEN [err |-> st.err, doc |-> NoDoc]
    ELSE [err |-> NoErr,
          doc |-> new_document(
              IF "updated" \in DOMAIN sp
              THEN [i \in 1..Len(st.elements) |->
                       [st.elements[i] EXCEPT !.updated = sp.updated]]
              ELSE st.elements)]

\* [err, doc]: the document, or NoDoc with the error
build(sp, ts) ==
    IF _require_list(sp, "nodes") # NoErr
    THEN [err |-> _require_list(sp, "nodes"), doc |-> NoDoc]
    ELSE IF _require_list(sp, "edges") # NoErr
    THEN [err |-> _require_list(sp, "edges"), doc |-> NoDoc]
    ELSE BuildDone(sp,
             BuildEdges(
                 BuildNodes([err |-> NoErr, elements |-> <<>>,
                             ids |-> IdFactory(Get(sp, "seed", 42), 0, {}),
                             aliases |-> <<>>],
                            Get(sp, "nodes", <<>>), 1, _read_style(sp), ts),
                 Get(sp, "edges", <<>>), 1, _read_style(sp), ts))

(***************************************************************************)
(* spec.py: diagram_to_spec.  Numbers of a compact spec are plain unit     *)
(* integers; a float with a fractional part is held as FRAC + its count of *)
(* 1/Q units, which equals no integer of the model.                        *)
(***************************************************************************)
NODE_TYPES == {"rectangle", "ellipse", "diamond"}
MAX_DISTANCE == 64

_normalize_number(value) ==
    IF value % Q = 0 THEN value \div Q ELSE FRAC + value

\* list.sort(key=...): stable insertion sort of the positions 1..Len(keys) of a
\* list by its keys, tuples of numbers compared lexicographically
RECURSIVE InsertSorted(_, _, _)
InsertSorted(sorted, e, keys) ==
    IF sorted = <<>> THEN <<e>>
    ELSE IF LexLess(keys[e], keys[sorted[Len(sorted)]])
    THEN Append(InsertSorted(SubSeq(sorted, 1, Len(sorted) - 1), e, keys),
                sorted[Len(sorted)])
    ELSE Append(sorted, e)
RECURSIVE SortedPositions(_, _)
SortedPositions(keys, n) ==
    IF n = 0 THEN <<>> ELSE InsertSorted(SortedPositions(keys, n - 1), n, keys)
SortByKey(s, keys) ==
    LET order == SortedPositions(keys, Len(s)) IN [i \in 1..Len(s) |-> s[order[i]]]

\* _find_bound_labels(elements)[container_id]: position of the last active
\* text whose containerId is that id, 0 when there is none
_find_bound_labels(elements, container_id) ==
    LET hits == SelectSeq(active_elements(elements),
                    LAMBDA i : elements[i].type = "text"
                               /\ TruthyId(elements[i].containerId)
                               /\ elements[i].containerId = container_id)
    IN IF hits = <<>> THEN 0 ELSE hits[Len(hits)]

\* positions of the active texts with no container, in document order
_standalone_texts(elements) ==
    SelectSeq(active_elements(elements),
        LAMBDA i : elements[i].type = "text" /\ ~TruthyId(elements[i].containerId))

_text_center(text) == <<text.x + Half(text.width), text.y + Half(text.height)>>

\* optional keys of a record: those of opt whose flag is true
Optional(flags, opt) ==
    [k \in {j \in DOMAIN opt : flags[j]} |-> opt[k]]

\* mutant: the stroke is emitted also when it is the default
_extract_nodeAlwaysStroke(shape, label) ==
    [id |-> shape.id, type |-> shape.type, x |-> _normalize_number(shape.x),
     y |-> _normalize_number(shape.y), width |-> _normalize_number(shape.width),
     height |-> _normalize_number(shape.height), stroke |-> shape.strokeColor]
    @@ Optional(
        [background |-> shape.backgroundColor # TRANSPARENT,
         strokeWidth |-> shape.strokeWidth # 2,
         strokeStyle |-> shape.strokeStyle # "solid",
         roughness |-> shape.roughness # 1,
         label |-> label # <<>>],
        [background |-> shape.backgroundColor,
         strokeWidth |-> shape.strokeWidth, strokeStyle |-> shape.strokeStyle,
         roughness |-> shape.roughness, label |-> label])

\* label: the stripped text, <<>> for None
_extract_node(shape, label) ==
    [id |-> shape.id, type |-> shape.type, x |-> _normalize_number(shape.x),
     y |-> _normalize_number(shape.y), width |-> _normalize_number(shape.width),
     height |-> _normalize_number(shape.height)]
    @@ Optional(
        [stroke |-> shape.strokeColor # DEFAULT_STROKE,
         background |-> shape.backgroundColor # TRANSPARENT,
         strokeWidth |-> shape.strokeWidth # 2,
         strokeStyle |-> shape.strokeStyle # "solid",
         roughness |-> shape.roughness # 1,
         label |-> label # <<>>],
        [stroke |-> shape.strokeColor, background |-> shape.backgroundColor,
         strokeWidth |-> shape.strokeWidth, strokeStyle |-> shape.strokeStyle,
         roughness |-> shape.roughness, label |-> label])

\* squared distance, in 1/Q units, between two points
Dist2(p, q) == (p[1] - q[1]) * (p[1] - q[1]) + (p[2] - q[2]) * (p[2] - q[2])

\* the loop over standalone_texts: best is the position of the best text so far
RECURSIVE InferLabelLoop(_, _, _, _, _, _)
InferLabelLoop(elements, texts, k, midpoint, used_ids, best) ==
    IF k > Len(texts) THEN best
    ELSE LET text == elements[texts[k]]
             \* dist and max_distance are compared by their squares
             d == Dist2(_text_center(text), midpoint)
             far == d > Float(MAX_DISTANCE) * Float(MAX_DISTANCE)
             closer == best = 0 \/ d < Dist2(_text_center(elements[best]), midpoint)
         IN IF text.id = "" \/ text.id \in used_ids \/ far \/ ~closer
            THEN InferLabelLoop(elements, texts, k + 1, midpoint, used_ids, best)
            ELSE InferLabelLoop(elements, texts, k + 1, midpoint, used_ids, texts[k])

ArrowMidpoint(arrow) ==
    LET ends == arrow_endpoints(arrow)
    IN <<Half(ends[1][1] + ends[2][1]), Half(ends[1][2] + ends[2][2])>>

\* mutant: the text taken is not recorded as used
_infer_arrow_labelReuse(elements, arrow, standalone_texts, used_ids) ==
    LET best == InferLabelLoop(elements, standalone_texts, 1, ArrowMidpoint(arrow),
                               used_ids, 0)
    IN IF best = 0 THEN [label |-> <<>>, used |-> used_ids]
       ELSE [label |-> Strip(elements[best].text), used |-> used_ids]

\* [label, used]: label is <<>> for None
_infer_arrow_label(elements, arrow, standalone_texts, used_ids) ==
    LET best == InferLabelLoop(elements, standalone_texts, 1, ArrowMidpoint(arrow),
                               used_ids, 0)
    IN IF best = 0 THEN [label |-> <<>>, used |-> used_ids]
       ELSE [label |-> Strip(elements[best].text),
             used |-> used_ids \cup {elements[best].id}]

\* one pass of `for elem in active_elements(elements)`; st = [edges, used]
ExtractEdge(st, elements, elem, standalone_texts) ==
    LET si == build_id_index(elements, BindingId(elem.startBinding))
        ti == build_id_index(elements, BindingId(elem.endBinding))
    IN IF elem.type # "arrow" \/ si = 0 \/ ti = 0 THEN st
       ELSE IF elements[si].type \notin NODE_TYPES \/ elements[ti].type \notin NODE_TYPES
       THEN st
       ELSE
       LET ends == arrow_endpoints(elem)
           l == _infer_arrow_label(elements, elem, standalone_texts, st.used)
           edge == [from |-> elem.startBinding.elementId,
                    to |-> elem.endBinding.elementId,
                    fromEdge |-> InferEdge(elem.startBinding, elements[si], ends[1]),
                    toEdge |-> InferEdge(elem.endBinding, elements[ti], ends[2])]
                   @@ Optional(
                       [stroke |-> elem.strokeColor # DEFAULT_STROKE,
                        elbowed |-> elem.elbowed, label |-> l.label # <<>>],
                       [stroke |-> elem.strokeColor, elbowed |-> TRUE,
                        label |-> l.label])
       IN [edges |-> Append(st.edges, edge), used |-> l.used]

RECURSIVE ExtractEdgesLoop(_, _, _, _)
ExtractEdgesLoop(st, elements, act, k) ==
    IF k > Len(act) THEN st
    ELSE ExtractEdgesLoop(
            ExtractEdge(st, elements, elements[act[k]], _standalone_texts(elements)),
            elements, act, k + 1)

edge_sort_key(elements, edge) ==
    LET source == elements[build_id_index(elements, edge.from)]
        target == elements[build_id_index(elements, edge.to)]
    IN <<source.y, source.x, target.y, target.x, StrRank(edge.from), StrRank(edge.to)>>

_extract_edges(elements) ==
    LET edges == ExtractEdgesLoop([edges |-> <<>>, used |-> {}], elements,
                                  active_elements(elements), 1).edges
    IN SortByKey(edges, [i \in 1..Len(edges) |-> edge_sort_key(elements, edges[i])])

\* the nodes of the output before nodes.sort
ExtractNodes(elements) ==
    LET shapes == SelectSeq(active_elements(elements),
                      LAMBDA i : elements[i].type \in NODE_TYPES)
    IN [k \in 1..Len(shapes) |->
          LET li == _find_bound_labels(elements, elements[shapes[k]].id)
          IN _extract_node(elements[shapes[k]],
                           IF li = 0 THEN <<>> ELSE Strip(elements[li].text))]

node_sort_key(n) == <<SpecFloat(n.y), SpecFloat(n.x), StrRank(n.id)>>

\* existing_spec: a compact spec, or None
diagram_to_spec(data, existing_spec) ==
    LET elements == data.elements
        nodes == ExtractNodes(elements)
    IN [seed |-> Get(existing_spec, "seed", 42),
        nodes |-> SortByKey(nodes, [i \in 1..Len(nodes) |-> node_sort_key(nodes[i])]),
        edges |-> _extract_edges(elements)]
       @@ Optional([updated |-> "updated" \in DOMAIN existing_spec],
                   [updated |-> Get(existing_spec, "updated", 0)])

(***************************************************************************)
(* validate.py: validate_document.  The result is the set of errors, each  *)
(* <<position of the element (0 for the root), message>>.                  *)
(***************************************************************************)
ROOT_REQUIRED_FIELDS == {"type", "version", "source", "elements", "appState", "files"}
SUPPORTED_TYPES == {"rectangle", "ellipse", "diamond", "arrow", "line", "text", "freedraw"}

_bound_contains(parent, child_id, child_type) ==
    \E k \in 1..Len(parent.boundElements) :
        parent.boundElements[k].id = child_id /\ parent.boundElements[k].type = child_type

\* _validate_point: a list of two numbers
_validate_point(point) == Len(point) = 2

\* True when the binding's target exists and does not list the arrow
BindingUnreciprocated(elements, elem, binding) ==
    /\ binding # None
    /\ build_id_index(elements, binding.elementId) # 0
    /\ ~_bound_contains(elements[build_id_index(elements, binding.elementId)],
                        elem.id, "arrow")

BindingDangling(elements, binding) ==
    /\ binding # None
    /\ TruthyId(binding.elementId)
    /\ build_id_index(elements, binding.elementId) = 0

ElementErrors(elements, i) ==
    LET elem == elements[i]
        E(cond, msg) == IF cond THEN {<<i, msg>>} ELSE {}
    IN E(~TruthyId(elem.id), "id must be a non-empty string")
       \cup E(BASE_REQUIRED_FIELDS \ DOMAIN elem # {}, "missing base keys")
       \cup E(elem.type \notin SUPPORTED_TYPES, "type unsupported")
       \cup E(elem.type \in ROUNDNESS_TYPES /\ "roundness" \in DOMAIN elem
              /\ elem.roundness # ROUNDNESS_BY_TYPE(elem.type), "roundness")
       \cup E(\E j \in 1..Len(elements) : j # i /\ elements[j].id = elem.id,
              "duplicate element ids")
       \cup (IF elem.type # "text" THEN {}
             ELSE E(TEXT_REQUIRED_FIELDS \ DOMAIN elem # {}, "missing text keys")
                  \cup E("containerId" \in DOMAIN elem /\ TruthyId(elem.containerId)
                         /\ build_id_index(elements, elem.containerId) = 0,
                         "containerId references missing element")
                  \cup E("containerId" \in DOMAIN elem /\ TruthyId(elem.containerId)
                         /\ build_id_index(elements, elem.containerId) # 0
                         /\ ~_bound_contains(
                               elements[build_id_index(elements, elem.containerId)],
                               elem.id, "text"),
                         "container does not reference this text in boundElements"))
       \cup (IF elem.type # "arrow" THEN {}
             ELSE E(ARROW_REQUIRED_FIELDS \ DOMAIN elem # {}, "missing arrow keys")
                  \cup E("points" \notin DOMAIN elem \/ Len(elem.points) < 2,
                         "points must contain at least two points")
                  \cup E("points" \in DOMAIN elem /\ Len(elem.points) >= 2
                         /\ \E k \in 1..Len(elem.points) : ~_validate_point(elem.points[k]),
                         "points must be [x, y] number pairs")
                  \cup E(\E b \in {"startBinding", "endBinding"} :
                            b \in DOMAIN elem
                            /\ elem[b] # None /\ ~TruthyId(elem[b].elementId),
                         "elementId must be a non-empty string")
                  \cup E(\E b \in {"startBinding", "endBinding"} :
                            b \in DOMAIN elem /\ BindingDangling(elements, elem[b]),
                         "binding references missing element")
                  \cup E(\E b \in {"startBinding", "endBinding"} :
                            b \in DOMAIN elem
                            /\ BindingUnreciprocated(elements, elem, elem[b]),
                         "target does not reference this arrow in boundElements"))

validate_document(data) ==
    (IF ROOT_REQUIRED_FIELDS \ DOMAIN data # {} THEN {<<0, "missing root keys">>} ELSE {})
    \cup (IF data.type # "excalidraw" THEN {<<0, "root.type must be 'excalidraw'">>} ELSE {})
    \cup UNION {ElementErrors(data.elements, i) : i \in 1..Len(data.elements)}

(***************************************************************************)
(* Inputs                                                                  *)
(***************************************************************************)
MaxNodes == 2
MaxEdges == 2
MaxOps == 3
MaxRank == 3850

RED == "#e03131"
BLUE == "#a5d8ff"

Node(id, type, x, y, w, h) ==
    [id |-> id, type |-> type, x |-> x, y |-> y, width |-> w, height |-> h]

NodeChoices ==
    { Node("A", "rectangle", 0, 0, 200, 80) @@ [label |-> <<"a", "b">>],
      Node("A", "ellipse", 0, 200, 120, 60)
          @@ [stroke |-> RED, background |-> BLUE, strokeWidth |-> 4,
              strokeStyle |-> "dashed", roughness |-> 0],
      Node("A", "rectangle", 0, 0, 200, 80)
          @@ [stroke |-> DEFAULT_STROKE, label |-> <<" ", "a">>, fontSize |-> 28],
      [id |-> "B"],
      Node("B", "rectangle", 0, 200, 200, 80) @@ [label |-> <<"b">>],
      Node("B", "diamond", 300, 0, 100, 60) }

EdgeChoices ==
    { [from |-> "A", to |-> "B", fromEdge |-> "bottom", toEdge |-> "top"],
      [from |-> "A", to |-> "B", fromEdge |-> "bottom", toEdge |-> "top",
       label |-> <<"x">>],
      [from |-> "B", to |-> "A", fromEdge |-> "right", toEdge |-> "right",
       label |-> <<"y">>],
      [from |-> "B", to |-> "A", fromEdge |-> "right", toEdge |-> "left",
       stroke |-> RED, elbowed |-> TRUE],
      [from |-> "A", to |-> "B"] }

SeqsUpTo(S, n) == UNION {[1..k -> S] : k \in 0..n}

Tops ==
    { [seed |-> 42], [seed |-> 7, updated |-> 5], [style |-> [roughness |-> 0]] }

\* specs that build.py rejects for the shape of their lists or of a node
MalformedSpecs ==
    { [seed |-> 42, nodes |-> NotAList, edges |-> <<>>],
      [seed |-> 42, nodes |-> <<>>, edges |-> NotAList],
      [seed |-> 42, nodes |-> <<NotAnObject>>, edges |-> <<>>],
      [seed |-> 42, nodes |-> <<Node("A", "rectangle", 0, 0, 200, 80)>>,
       edges |-> <<NotAnObject>>],
      [seed |-> 42, nodes |-> <<[type |-> "rectangle"]>>, edges |-> <<>>],
      [seed |-> 42, nodes |-> <<Node("", "rectangle", 0, 0, 200, 80)>>, edges |-> <<>>],
      [seed |-> 42, nodes |-> <<Node(NotAStr, "rectangle", 0, 0, 200, 80)>>,
       edges |-> <<>>],
      [seed |-> 42, nodes |-> <<Node("A", "line", 0, 0, 200, 80)>>, edges |-> <<>>],
      [seed |-> 42, nodes |-> <<Node("A", "rectangle", 0, 0, 200, 80)>>,
       edges |-> <<[to |-> "A"]>>],
      [seed |-> 42, nodes |-> <<Node("A", "rectangle", 0, 0, 200, 80)>>,
       edges |-> <<[from |-> "A", to |-> NotAStr]>>] }

\* two labelled rectangles, one above the other, joined bottom to top
Scenario ==
    [seed |-> 42,
     nodes |-> << Node("A", "rectangle", 0, 0, 200, 80)
                      @@ [label |-> <<"S", "t", "a", "r", "t">>],
                  Node("B", "rectangle", 0, 200, 200, 80)
                      @@ [label |-> <<"E", "n", "d">>] >>,
     edges |-> << [from |-> "A", to |-> "B", fromEdge |-> "bottom", toEdge |-> "top"] >>]

\* three edges with midpoints close together: an unlabelled edge, then two
\* captioned ones; the caption listed first is the farther one from the
\* unlabelled edge
Crowded ==
    [seed |-> 42,
     nodes |-> << Node("A", "ellipse", 0, 200, 120, 60),
                  Node("B", "diamond", 300, 0, 100, 60) @@ [label |-> <<"b">>] >>,
     edges |-> << [from |-> "A", to |-> "B", fromEdge |-> "bottom", toEdge |-> "top"],
                  [from |-> "B", to |-> "A", fromEdge |-> "right", toEdge |-> "right",
                   label |-> <<"y">>],
                  [from |-> "A", to |-> "B", fromEdge |-> "bottom", toEdge |-> "top",
                   label |-> <<"x">>] >>]

BuildSpecs ==
    { top @@ [nodes |-> ns, edges |-> es] :
        top \in Tops, ns \in SeqsUpTo(NodeChoices, MaxNodes),
        es \in SeqsUpTo(EdgeChoices, MaxEdges) }
    \cup MalformedSpecs \cup {Scenario, Crowded}

T0 == 1000
Times == {T0, T0 + 1}

(***************************************************************************)
(* The state machine: one build, then an extraction (SpecBuild) or edits   *)
(* (Spec).                                                                 *)
(***************************************************************************)
InitCommon ==
    /\ doc = NoDoc
    /\ pc = "start"
    /\ out = None
    /\ prev = <<>>
    /\ last = [op |-> "none"]
    /\ nops = 0
    /\ fac = IdFactory(42, 0, {})

InitBuild == InitCommon /\ spec \in BuildSpecs /\ now = T0

\* build.py _run: build, then save_diagram
Build ==
    /\ pc = "start"
    /\ LET r == build(spec, now)
       IN /\ doc' = r.doc
          /\ pc' = IF r.err = NoErr THEN "built" ELSE "failed"
          /\ last' = [op |-> "build", err |-> r.err]
    /\ UNCHANGED <<spec, out, prev, nops, now, fac>>

\* golden_check.py _run / sync_spec_for_data: diagram_to_spec with the existing spec
Extract ==
    /\ pc = "built"
    /\ out' = diagram_to_spec(doc, spec)
    /\ pc' = "extracted"
    /\ last' = [op |-> "extract"]
    /\ UNCHANGED <<spec, doc, prev, nops, now, fac>>

NextBuild == Build \/ Extract

SpecBuild == InitBuild /\ [][NextBuild]_vars

(***************************************************************************)
(* The edit machine (Spec): a build of one of EditSpecs, then up to MaxOps *)
(* edit commands.  Each command loads the document, runs its whole handler *)
(* and saves; a command that raises saves nothing.  The clock advances by  *)
(* one between commands; a command's factory is seeded with the clock and  *)
(* its touches are stamped with it.                                        *)
(***************************************************************************)
Chain ==
    [seed |-> 42,
     nodes |-> << Node("A", "rectangle", 0, 0, 200, 80) @@ [label |-> <<"a", "b">>],
                  Node("B", "rectangle", 0, 200, 200, 80) @@ [label |-> <<"b">>],
                  Node("C", "ellipse", 0, 400, 200, 80) >>,
     edges |-> << [from |-> "A", to |-> "B", fromEdge |-> "bottom", toEdge |-> "top",
                   label |-> <<"x">>],
                  [from |-> "B", to |-> "C", fromEdge |-> "bottom", toEdge |-> "top"] >>]

Row ==
    [seed |-> 7,
     nodes |-> << Node("A", "rectangle", 0, 0, 200, 80) @@ [label |-> <<"a", "b">>],
                  Node("B", "diamond", 300, 0, 100, 60) @@ [label |-> <<"b">>] >>,
     edges |-> << [from |-> "A", to |-> "B", fromEdge |-> "right", toEdge |-> "left",
                   stroke |-> RED, elbowed |-> TRUE] >>]

EditSpecs == {Chain, Row}

MoveArgs ==
    { [label |-> <<"b">>, dx |-> 0, dy |-> 0],
      [label |-> <<"b">>, dx |-> 5, dy |-> 0],
      [label |-> <<"b">>, dx |-> 300, dy |-> -40],
      [label |-> <<"A">>, dx |-> -5, dy |-> 30],
      [label |-> <<"x">>, dx |-> 5, dy |-> 5],
      [label |-> <<"z">>, dx |-> 5, dy |-> 5] }

RelabelArgs ==
    { [label |-> <<"b">>, text |-> <<"a", "b">>],
      [label |-> <<"x">>, text |-> <<"b">>],
      [label |-> <<"z">>, text |-> <<"b">>] }

RecolorArgs ==
    { [label |-> <<"b">>, stroke |-> RED, background |-> NoId],
      [label |-> <<"a">>, stroke |-> NoId, background |-> BLUE],
      [label |-> <<"x">>, stroke |-> RED, background |-> BLUE] }

DeleteArgs == { <<"b">>, <<"a">>, <<"x">>, <<"z">> }

AddBoxArgs ==
    { [label |-> <<"d">>, x |-> 300, y |-> 200, width |-> 100, height |-> 60,
       stroke |-> DEFAULT_STROKE, background |-> TRANSPARENT, font_size |-> 20,
       font_family |-> 5, dashed |-> FALSE, crisp |-> FALSE],
      [label |-> <<"b">>, x |-> 0, y |-> 200, width |-> 200, height |-> 80,
       stroke |-> RED, background |-> BLUE, font_size |-> 28,
       font_family |-> 5, dashed |-> TRUE, crisp |-> TRUE] }

ConnectArgs ==
    { [from_label |-> <<"a">>, to_label |-> <<"b">>, from_edge |-> "right",
       to_edge |-> "left", stroke |-> DEFAULT_STROKE, elbowed |-> FALSE,
       label |-> <<>>, font_size |-> 16, font_family |-> 5],
      [from_label |-> <<"b">>, to_label |-> <<"d">>, from_edge |-> "bottom",
       to_edge |-> "top", stroke |-> RED, elbowed |-> TRUE,
       label |-> <<"x">>, font_size |-> 16, font_family |-> 5],
      [from_label |-> <<"b">>, to_label |-> <<"z">>, from_edge |-> "bottom",
       to_edge |-> "top", stroke |-> DEFAULT_STROKE, elbowed |-> FALSE,
       label |-> <<>>, font_size |-> 16, font_family |-> 5] }

ElementIds(elements) == {elements[i].id : i \in 1..Len(elements)}

\* add-box and connect draw at most two fresh ids
FreeIds(elements) == Cardinality({i \in 1..Len(IdPool) : IdPool[i] \notin ElementIds(elements)})

Init == InitCommon /\ spec \in EditSpecs /\ now \in Times

CanEdit == pc = "built" /\ nops < MaxOps

\* what every edit command does with the result r of its handler
Saved(op, args, r) ==
    /\ doc' = [doc EXCEPT !.elements = r.elements]
    /\ prev' = doc.elements
    /\ last' = [op |-> op, args |-> args, err |-> r.err]
    /\ nops' = nops + 1
    /\ now' = now + 1
    /\ UNCHANGED <<spec, pc, out, fac>>

Move ==
    /\ CanEdit
    /\ \E a \in MoveArgs :
          Saved("move", a, cmd_move(doc.elements, a.label, Float(a.dx), Float(a.dy),
                                    now + 1, now + 1))

Relabel ==
    /\ CanEdit
    /\ \E a \in RelabelArgs :
          Saved("relabel", a, cmd_relabel(doc.elements, a.label, a.text, now + 1, now + 1))

Recolor ==
    /\ CanEdit
    /\ \E a \in RecolorArgs :
          Saved("recolor", a, cmd_recolor(doc.elements, a.label, a.stroke, a.background,
                                          now + 1, now + 1))

Delete ==
    /\ CanEdit
    /\ \E a \in DeleteArgs :
          Saved("delete", [label |-> a], cmd_delete(doc.elements, a, now + 1, now + 1))

AddBox ==
    /\ CanEdit
    /\ FreeIds(doc.elements) >= 2
    /\ \E a \in AddBoxArgs :
          Saved("add-box", a, cmd_add_box(doc.elements, a, now + 1, now + 1))

Connect ==
    /\ CanEdit
    /\ FreeIds(doc.elements) >= 2
    /\ \E a \in ConnectArgs :
          Saved("connect", a, cmd_connect(doc.elements, a, now + 1, now + 1))

Next == Build \/ Move \/ Relabel \/ Recolor \/ Delete \/ AddBox \/ Connect

Spec == Init /\ [][Next]_vars

(***************************************************************************)
(* Properties of synthesis and extraction (checked under SpecBuild)        *)
(***************************************************************************)
ListOfObjects(v) == v # NotAList /\ \A i \in 1..Len(v) : v[i] # NotAnObject

\* the node ids declared by a list of node objects
DeclaredIds(nodes) == {Get(nodes[i], "id", NoId) : i \in 1..Len(nodes)}

\* a spec that meets the validation rules of synthesis
ValidSpec(S) ==
    /\ ListOfObjects(Get(S, "nodes", <<>>))
    /\ ListOfObjects(Get(S, "edges", <<>>))
    /\ LET nodes == Get(S, "nodes", <<>>)
           edges == Get(S, "edges", <<>>)
       IN /\ \A i \in 1..Len(nodes) :
                /\ IsStr(Get(nodes[i], "id", NoId)) /\ Get(nodes[i], "id", NoId) # ""
                /\ Get(nodes[i], "type", "rectangle") \in {"rectangle", "ellipse", "diamond"}
                /\ \A j \in 1..(i - 1) : Get(nodes[j], "id", NoId) # Get(nodes[i], "id", NoId)
          /\ \A k \in 1..Len(edges) :
                /\ Get(edges[k], "from", NoId) \in DeclaredIds(nodes)
                /\ Get(edges[k], "to", NoId) \in DeclaredIds(nodes)
                /\ Get(edges[k], "fromEdge", "bottom") \in EdgeNames
                /\ Get(edges[k], "toEdge", "top") \in EdgeNames

\* the node of S with this id
NodeOf(S, id) == S.nodes[CHOOSE i \in 1..Len(S.nodes) : S.nodes[i].id = id]

NodeBox(n) ==
    [x |-> Float(n.x), y |-> Float(n.y), width |-> Float(n.width),
     height |-> Float(n.height)]

\* the midpoint of the arrow synthesized for edge e of S: its origin plus half
\* its last point
EdgeMid(S, e) ==
    LET s == edge_point(NodeBox(NodeOf(S, e.from)), e.fromEdge)
        t == edge_point(NodeBox(NodeOf(S, e.to)), e.toEdge)
        points == route_points(e.fromEdge, e.toEdge, t[1] - s[1], t[2] - s[2])
        end == points[Len(points)]
    IN <<s[1] + Half(end[1]), s[2] + Half(end[2])>>

EdgeKey(S, e) ==
    <<Float(NodeOf(S, e.from).y), Float(NodeOf(S, e.from).x),
      Float(NodeOf(S, e.to).y), Float(NodeOf(S, e.to).x),
      StrRank(e.from), StrRank(e.to)>>

\* the form in which extraction writes a spec
Canonical(S) ==
    /\ {"seed", "nodes", "edges"} \subseteq DOMAIN S
    /\ DOMAIN S \subseteq {"seed", "nodes", "edges", "updated"}
    /\ \A i \in 1..Len(S.nodes) :
          LET n == S.nodes[i]
          IN /\ {"id", "type", "x", "y", "width", "height"} \subseteq DOMAIN n
             /\ DOMAIN n \subseteq {"id", "type", "x", "y", "width", "height", "stroke",
                                    "background", "strokeWidth", "strokeStyle",
                                    "roughness", "label"}
             /\ "stroke" \in DOMAIN n => n.stroke # DEFAULT_STROKE
             /\ "background" \in DOMAIN n => n.background # TRANSPARENT
             /\ "strokeWidth" \in DOMAIN n => n.strokeWidth # 2
             /\ "strokeStyle" \in DOMAIN n => n.strokeStyle # "solid"
             /\ "roughness" \in DOMAIN n => n.roughness # 1
             /\ "label" \in DOMAIN n => n.label # <<>> /\ Strip(n.label) = n.label
             /\ \A j \in 1..(i - 1) :
                   LexLess(<<Float(S.nodes[j].y), Float(S.nodes[j].x), StrRank(S.nodes[j].id)>>,
                           <<Float(n.y), Float(n.x), StrRank(n.id)>>)
    /\ \A k \in 1..Len(S.edges) :
          LET e == S.edges[k]
          IN /\ {"from", "to", "fromEdge", "toEdge"} \subseteq DOMAIN e
             /\ DOMAIN e \subseteq {"from", "to", "fromEdge", "toEdge", "stroke",
                                    "elbowed", "label"}
             /\ "stroke" \in DOMAIN e => e.stroke # DEFAULT_STROKE
             /\ "elbowed" \in DOMAIN e => e.elbowed
             /\ "label" \in DOMAIN e => e.label # <<>> /\ Strip(e.label) = e.label
             /\ \A j \in 1..(k - 1) :
                   /\ ~LexLess(EdgeKey(S, e), EdgeKey(S, S.edges[j]))
                   /\ ("label" \in DOMAIN e /\ "label" \notin DOMAIN S.edges[j])
                        => Dist2(EdgeMid(S, S.edges[j]), EdgeMid(S, e))
                             > Float(MAX_DISTANCE) * Float(MAX_DISTANCE)

Defective(S) ==
    \/ ~ListOfObjects(Get(S, "nodes", <<>>))
    \/ ~ListOfObjects(Get(S, "edges", <<>>))
    \/ LET nodes == Get(S, "nodes", <<>>)
           edges == Get(S, "edges", <<>>)
       IN \/ \E i \in 1..Len(nodes) :
                \/ ~IsStr(Get(nodes[i], "id", NoId)) \/ Get(nodes[i], "id", NoId) = ""
                \/ Get(nodes[i], "type", "rectangle") \notin {"rectangle", "ellipse", "diamond"}
                \/ \E j \in 1..(i - 1) : Get(nodes[j], "id", NoId) = Get(nodes[i], "id", NoId)
          \/ \E k \in 1..Len(edges) :
                \/ Get(edges[k], "from", NoId) \notin DeclaredIds(nodes)
                \/ Get(edges[k], "to", NoId) \notin DeclaredIds(nodes)

\* C10: build fails, and yields no document, whenever nodes or edges is not a
\* list of objects, a node id is missing, empty, not a string or repeated, a
\* node type is not rectangle, ellipse or diamond, or an edge's from or to names
\* no declared node; reserve_id fails on an id already in the allocator's set
\* and leaves the set unchanged.
C10_BuildRejectsDefects ==
    /\ (pc # "start" /\ Defective(spec))
          => (pc = "failed" /\ last.err # NoErr /\ doc = NoDoc)
    /\ pc = "failed" => doc = NoDoc
    /\ pc = "built" =>
          LET f == _build_factory(doc.elements, Get(spec, "seed", 42))
          IN \A i \in 1..Len(doc.elements) :
                LET r == reserve_id(f, doc.elements[i].id)
                IN r.err # NoErr /\ r.f = f

C10_Witness ==
    /\ pc = "failed" /\ doc = NoDoc
    /\ last.err = "to references unknown node"
    /\ Len(spec.nodes) = 1 /\ Len(spec.edges) = 2

(***************************************************************************)
(* The index allocator alone (SpecIndex): one factory issues order indices *)
(* rank by rank.                                                           *)
(***************************************************************************)
InitIndex ==
    /\ spec = None /\ doc = NoDoc /\ pc = "index" /\ out = <<>> /\ prev = <<>>
    /\ last = [op |-> "none"] /\ nops = 0 /\ now = T0
    /\ fac = IdFactory(42, 0, {})

\* IdFactory.next_index: out is the index issued, fac the factory after the call
NextIndex ==
    /\ pc = "index"
    /\ fac.next_rank < MaxRank
    /\ out' = next_index(fac).v
    /\ fac' = next_index(fac).f
    /\ UNCHANGED <<spec, doc, pc, prev, last, nops, now>>

SpecIndex == InitIndex /\ [][NextIndex]_vars

(***************************************************************************)
(* lib.py: route_points on its own.  The call is drawn in the initial      *)
(* state (last.args) and Route applies the function; out is the result.    *)
(* Offsets are floats in 1/Q units: 39 is 9.75 and 41 is 10.25.            *)
(***************************************************************************)
RouteOffsets ==
    {Float(-40), Float(-10), -39, Float(-5), 0, Float(5), 39, Float(10), 41, Float(40)}

InitRoute ==
    /\ spec = None /\ doc = NoDoc /\ pc = "route" /\ out = <<>> /\ prev = <<>>
    /\ nops = 0 /\ now = T0 /\ fac = IdFactory(42, 0, {})
    /\ \E s \in EdgeNames, t \in EdgeNames, dx \in RouteOffsets, dy \in RouteOffsets :
          last = [op |-> "route_points",
                  args |-> [source_edge |-> s, target_edge |-> t, dx |-> dx, dy |-> dy]]

Route ==
    /\ pc = "route"
    /\ out' = route_points(last.args.source_edge, last.args.target_edge,
                           last.args.dx, last.args.dy)
    /\ pc' = "routed"
    /\ UNCHANGED <<spec, doc, prev, last, nops, now, fac>>

SpecRoute == InitRoute /\ [][Route]_vars

(***************************************************************************)
(* lib.py: reroute_arrow on its own.  The document is two shapes A and B   *)
(* and one arrow; the initial state draws which shapes are deleted and the *)
(* arrow's origin, points and bindings (live, deleted or absent target;    *)
(* canonical, other or missing fixedPoint).  Reroute applies the function  *)
(* to the arrow (last.args.arrow); out is [changed, arrow].                *)
(***************************************************************************)
RerouteBase ==
    build([seed |-> 42,
           nodes |-> <<Node("A", "rectangle", 0, 0, 200, 80),
                       Node("B", "rectangle", 300, 200, 80, 80)>>,
           edges |-> <<[from |-> "A", to |-> "B", fromEdge |-> "right",
                        toEdge |-> "left"]>>], T0).doc.elements

\* a binding to the element id: canonical fraction of an edge, another
\* fraction, no fraction
BindingChoices(id, e1, e2) ==
    {None, Binding(id, e1), Binding(id, e2), Binding(id, NoId),
     [Binding(id, e1) EXCEPT !.fixedPoint = <<Half(Q), Half(Q)>>],
     [Binding(id, e1) EXCEPT !.fixedPoint = <<Q, Q>>],
     Binding("Z", e1)}

RerouteOrigins ==
    {<<Float(200), Float(40)>>, <<Float(30), 0>>, <<Float(30), Float(80)>>,
     <<Float(100), Float(40)>>, <<Float(100), Float(90)>>, <<Float(-5), Float(17)>>}

ReroutePoints ==
    {<<>>, <<<<0, 0>>>>, <<<<0, 0>>, <<Float(100), Float(160)>>>>,
     <<<<0, 0>>, <<Float(-100), Float(-60)>>>>,
     <<<<0, 0>>, <<0, Float(200)>>, <<Float(100), Float(200)>>>>}

InitReroute ==
    /\ spec = None /\ pc = "reroute" /\ out = <<>> /\ prev = <<>>
    /\ nops = 0 /\ now = T0 /\ fac = IdFactory(42, 0, {})
    /\ \E dA \in BOOLEAN, dB \in BOOLEAN, o \in RerouteOrigins, pts \in ReroutePoints,
          sb \in BindingChoices("A", "right", "bottom"),
          eb \in BindingChoices("B", "left", "top") :
          LET arrow == recalc_arrow_bounds(
                          [RerouteBase[3] EXCEPT !.x = o[1], !.y = o[2], !.points = pts,
                              !.startBinding = sb, !.endBinding = eb])
          IN /\ doc = new_document(
                         [RerouteBase EXCEPT ![1].isDeleted = dA, ![2].isDeleted = dB,
                                             ![3] = arrow])
             /\ last = [op |-> "reroute_arrow", args |-> [arrow |-> arrow]]

Reroute ==
    /\ pc = "reroute"
    /\ out' = reroute_arrow(last.args.arrow, doc.elements)
    /\ pc' = "rerouted"
    /\ UNCHANGED <<spec, doc, prev, last, nops, now, fac>>

SpecReroute == InitReroute /\ [][Reroute]_vars

(***************************************************************************)
(* lib.py: the additions of move_shape_and_dependents in Python's floats.  *)
(* A float is an IEEE 754 binary64 number [neg, m, e]: sign, significand   *)
(* as bits with the least significant first, and the exponent of the least *)
(* significant bit; the value is (-1)^neg * m * 2^e.  The form is          *)
(* canonical: m is empty for 0 and otherwise starts and ends with 1 and    *)
(* has at most 53 bits.  Exponents stay far from the subnormal and the     *)
(* overflow range.                                                         *)
(***************************************************************************)
MANT_DIG == 53

Zeros(n) == [i \in 1..n |-> 0]
Bit(s) == IF s = <<>> THEN 0 ELSE s[1]
Rest(s) == IF s = <<>> THEN <<>> ELSE Tail(s)

\* the bits of the natural number n, least significant first
RECURSIVE BitsOf(_)
BitsOf(n) == IF n = 0 THEN <<>> ELSE <<n % 2>> \o BitsOf(n \div 2)

\* a + b + c
RECURSIVE AddBits(_, _, _)
AddBits(a, b, c) ==
    IF a = <<>> /\ b = <<>> THEN (IF c = 1 THEN <<1>> ELSE <<>>)
    ELSE <<(Bit(a) + Bit(b) + c) % 2>>
         \o AddBits(Rest(a), Rest(b), (Bit(a) + Bit(b) + c) \div 2)

\* a - b - c, for a >= b + c
RECURSIVE SubBits(_, _, _)
SubBits(a, b, c) ==
    IF a = <<>> THEN <<>>
    ELSE <<(Bit(a) + 2 - Bit(b) - c) % 2>>
         \o SubBits(Rest(a), Rest(b), IF Bit(a) - Bit(b) - c < 0 THEN 1 ELSE 0)

\* without the zeros at the most significant end
RECURSIVE StripHigh(_)
StripHigh(s) ==
    IF s = <<>> THEN <<>>
    ELSE IF s[Len(s)] = 1 THEN s
    ELSE StripHigh(SubSeq(s, 1, Len(s) - 1))

\* the number of zeros at the least significant end
RECURSIVE LowZeros(_)
LowZeros(s) == IF s = <<>> \/ s[1] = 1 THEN 0 ELSE 1 + LowZeros(Tail(s))

\* a < b, for a and b without high zeros
RECURSIVE LessBits(_, _)
LessBits(a, b) ==
    IF Len(a) # Len(b) THEN Len(a) < Len(b)
    ELSE IF a = <<>> THEN FALSE
    ELSE IF a[Len(a)] # b[Len(b)] THEN a[Len(a)] < b[Len(b)]
    ELSE LessBits(StripHigh(SubSeq(a, 1, Len(a) - 1)),
                  StripHigh(SubSeq(b, 1, Len(b) - 1)))

\* the canonical float of sign neg and magnitude m * 2^e, m of at most
\* MANT_DIG + 1 bits and exactly representable
Canonical64(neg, m, e) ==
    IF StripHigh(m) = <<>> THEN [neg |-> FALSE, m |-> <<>>, e |-> 0]
    ELSE [neg |-> neg,
          m |-> SubSeq(StripHigh(m), LowZeros(m) + 1, Len(StripHigh(m))),
          e |-> e + LowZeros(m)]

\* round to nearest, ties to even: m without high zeros, k > 0 bits to drop
RoundDrop(neg, m, e, k) ==
    Canonical64(neg,
        IF m[k] = 1 /\ (m[k + 1] = 1 \/ \E i \in 1..(k - 1) : m[i] = 1)
        THEN AddBits(SubSeq(m, k + 1, Len(m)), <<1>>, 0)
        ELSE SubSeq(m, k + 1, Len(m)),
        e + k)

\* the float nearest to (-1)^neg * m * 2^e
Round64(neg, m, e) ==
    IF Len(StripHigh(m)) <= MANT_DIG THEN Canonical64(neg, m, e)
    ELSE RoundDrop(neg, StripHigh(m), e, Len(StripHigh(m)) - MANT_DIG)

\* a, b: the significands of x and y over the common exponent e
FloatAddAligned(x, y, a, b, e) ==
    IF x.neg = y.neg THEN Round64(x.neg, AddBits(a, b, 0), e)
    ELSE IF LessBits(StripHigh(a), StripHigh(b))
    THEN Round64(y.neg, SubBits(b, a, 0), e)
    ELSE Round64(x.neg, SubBits(a, b, 0), e)

\* x + y
FloatAdd(x, y) ==
    FloatAddAligned(x, y, Zeros(x.e - Min2(x.e, y.e)) \o x.m,
                    Zeros(y.e - Min2(x.e, y.e)) \o y.m, Min2(x.e, y.e))

FloatNeg(x) == IF x.m = <<>> THEN x ELSE [x EXCEPT !.neg = ~@]

\* the float (hi * 2^27 + lo) * 2^e, hi and lo below 2^27
Float64(hi, lo, e) ==
    Canonical64(FALSE, BitsOf(lo) \o Zeros(27 - Len(BitsOf(lo))) \o BitsOf(hi), e)

\* json.loads of 0, 0.1, 0.3, 0.25, 100 and 0.7: n.as_integer_ratio() gives
\* the significand and the exponent
InputCoords ==
    {Float64(0, 0, 0), Float64(53687091, 26843546, -56), Float64(40265318, 53687091, -54),
     Float64(0, 1, -2), Float64(0, 100, 0), Float64(46976204, 107374182, -53)}

\* --dx of 5, 0.2, 0.25 and 300 and their opposites
InputOffsets ==
    {Float64(0, 5, 0), Float64(53687091, 26843546, -55), Float64(0, 1, -2),
     Float64(0, 300, 0), FloatNeg(Float64(0, 5, 0)),
     FloatNeg(Float64(53687091, 26843546, -55)), FloatNeg(Float64(0, 1, -2)),
     FloatNeg(Float64(0, 300, 0))}

MaxShifts == 2

\* a shape at x = out with a label at x + 5 (add_label); prev lists the
\* earlier positions and last.args the offsets applied
InitShift ==
    /\ spec = None /\ doc = NoDoc /\ pc = "shift" /\ prev = <<>>
    /\ nops = 0 /\ now = T0 /\ fac = IdFactory(42, 0, {})
    /\ last = [op |-> "move", args |-> <<>>]
    /\ \E x \in InputCoords :
          out = [shape |-> x, label |-> FloatAdd(x, Float64(0, 5, 0))]

\* shape["x"] = float(shape.get("x", 0)) + dx; label["x"] = float(label.get("x", 0)) + dx
Shift ==
    /\ pc = "shift" /\ nops < MaxShifts
    /\ \E dx \in InputOffsets :
          /\ out' = [shape |-> FloatAdd(out.shape, dx), label |-> FloatAdd(out.label, dx)]
          /\ last' = [last EXCEPT !.args = Append(@, dx)]
    /\ prev' = Append(prev, out)
    /\ nops' = nops + 1
    /\ UNCHANGED <<spec, doc, pc, now, fac>>

SpecShift == InitShift /\ [][Shift]_vars

(***************************************************************************)
(* Properties of the edit machine (checked under Spec)                     *)
(***************************************************************************)
Range(seq) == {seq[k] : k \in 1..Len(seq)}

\* the elements of the document with this id
WithId(elements, id) == {j \in 1..Len(elements) : elements[j].id = id}

BackReferenced(elements, id, child_id, child_type) ==
    /\ WithId(elements, id) # {}
    /\ \A j \in WithId(elements, id) :
          [id |-> child_id, type |-> child_type] \in Range(elements[j].boundElements)

BindingsOf(arrow) == {b \in {arrow.startBinding, arrow.endBinding} : b # None}

\* C2: in the document made by build and after every sequence of add-box,
\* connect, move, relabel, recolor and delete, each text with containerId S is
\* listed as {id, type: "text"} in S.boundElements and each arrow whose
\* startBinding or endBinding names S is listed as {id, type: "arrow"} there.
C2_BindingInvariant ==
    pc = "built" =>
        \A i \in 1..Len(doc.elements) :
           LET e == doc.elements[i]
           IN /\ (e.type = "text" /\ e.containerId # NoId)
                    => BackReferenced(doc.elements, e.containerId, e.id, "text")
              /\ e.type = "arrow"
                    => \A b \in BindingsOf(e) :
                          BackReferenced(doc.elements, b.elementId, e.id, "arrow")

C2_Witness ==
    /\ pc = "built" /\ nops = MaxOps
    /\ last.op = "connect" /\ last.err = NoErr
    /\ Len(doc.elements) > Len(prev)
    /\ \E i \in 1..Len(prev) : prev[i].isDeleted
    /\ C2_BindingInvariant

\* C3: the document made by build and every document reached from it by
\* add-box, connect, move, relabel, recolor and delete edits passes
\* validate_document with no error.
C3_AlwaysValid ==
    pc = "built" => validate_document(doc) = {}

C3_Witness ==
    /\ pc = "built" /\ nops = MaxOps
    /\ last.op = "delete" /\ last.err = NoErr
    /\ \E i \in 1..Len(prev) : prev[i].type = "arrow" /\ doc.elements[i] # prev[i]
    /\ Len(prev) > Len(build(spec, T0).doc.elements)
    /\ validate_document(doc) = {}

\* C4: whenever the allocator has issued ranks 0..N-1, the index of every
\* rank i sorts strictly before the index of every rank j > i under
\* character-code lexicographic comparison (stated on the newest rank j = N-1,
\* which covers all pairs along the sequence).
C4_IndexMonotone ==
    (pc = "index" /\ fac.next_rank > 0) =>
        \A i \in 0..(fac.next_rank - 2) : LexLess(index_for_rank(i), out)

\* the shape a successful edit of the last step resolved its label to
EditedShape == _required_shape_by_label(prev, last.args.label).shape

MovedOk == pc = "built" /\ last.op = "move" /\ last.err = NoErr

\* the active arrows of the document bound to the element with this id
ActiveArrowsOn(elements, id) ==
    {i \in 1..Len(elements) :
        /\ elements[i].type = "arrow" /\ ~elements[i].isDeleted
        /\ \E b \in BindingsOf(elements[i]) : b.elementId = id}

\* an arrow ends on the anchors its bindings store
OnAnchors(elements, arrow) ==
    LET s == elements[build_id_index(elements, arrow.startBinding.elementId)]
        t == elements[build_id_index(elements, arrow.endBinding.elementId)]
        end == arrow.points[Len(arrow.points)]
    IN /\ <<arrow.x, arrow.y>>
            = edge_point(s, infer_edge_from_fixed_point(arrow.startBinding))
       /\ <<arrow.x + end[1], arrow.y + end[2]>>
            = edge_point(t, infer_edge_from_fixed_point(arrow.endBinding))

\* C5: after a move of shape S by (dx, dy) the bound label of S is
\* translated by exactly (dx, dy), and every active arrow bound to S starts on
\* edge_point of its start shape at the start binding's edge and ends (origin
\* plus last point) on edge_point of its end shape at the end binding's edge.
C5_MoveCascade ==
    MovedOk =>
        LET si == EditedShape
            li == text_for_container(prev, prev[si].id)
        IN /\ li # 0 =>
                 /\ doc.elements[li].x = prev[li].x + Float(last.args.dx)
                 /\ doc.elements[li].y = prev[li].y + Float(last.args.dy)
           /\ \A i \in ActiveArrowsOn(doc.elements, prev[si].id) :
                 OnAnchors(doc.elements, doc.elements[i])

\* the fields of an element that touch does not write
Content(elem) ==
    [k \in DOMAIN elem \ {"version", "versionNonce", "updated"} |-> elem[k]]

\* C6: a move bumps version by exactly 1 on exactly the elements whose other
\* fields it changes; every element other than S, its bound label and the
\* active arrows bound to or back-referenced by S is identical in every field,
\* and no element has its version bumped while its other fields stay the same.
C6_MoveBumpsOnlyChanged ==
    MovedOk =>
        /\ Len(doc.elements) = Len(prev)
        /\ \A i \in 1..Len(prev) :
              /\ Content(doc.elements[i]) # Content(prev[i])
                    => doc.elements[i].version = prev[i].version + 1
              /\ Content(doc.elements[i]) = Content(prev[i])
                    => doc.elements[i] = prev[i]
              /\ (/\ i # EditedShape
                  /\ i # text_for_container(prev, prev[EditedShape].id)
                  /\ i \notin ActiveArrowsOn(prev, prev[EditedShape].id)
                  /\ [id |-> prev[i].id, type |-> "arrow"]
                        \notin Range(prev[EditedShape].boundElements))
                    => doc.elements[i] = prev[i]

DeletedShapeOk ==
    /\ pc = "built" /\ last.op = "delete" /\ last.err = NoErr
    /\ _match_text(prev, last.args.label).shape # 0

\* C7: a delete on a label bound to the active shape S sets isDeleted on S,
\* on every active text with containerId S and on every active arrow whose
\* startBinding or endBinding names S, and leaves every other element
\* unchanged in every field.
C7_DeleteCascade ==
    DeletedShapeOk =>
        LET si == _match_text(prev, last.args.label).shape
            cascade == {si}
                \cup {i \in 1..Len(prev) : /\ prev[i].type = "text" /\ ~prev[i].isDeleted
                                           /\ prev[i].containerId = prev[si].id}
                \cup ActiveArrowsOn(prev, prev[si].id)
        IN /\ Len(doc.elements) = Len(prev)
           /\ \A i \in 1..Len(prev) :
                 IF i \in cascade THEN doc.elements[i].isDeleted
                 ELSE doc.elements[i] = prev[i]

C7_Witness ==
    /\ DeletedShapeOk
    /\ ActiveArrowsOn(prev, prev[_match_text(prev, last.args.label).shape].id) # {}
    /\ \E i \in 1..Len(prev) : ~prev[i].isDeleted /\ doc.elements[i] = prev[i]
    /\ \E i \in 1..Len(prev) : prev[i].type = "arrow" /\ ~prev[i].isDeleted
                               /\ doc.elements[i].isDeleted

\* the labels a lookup can be asked for
LookupLabels == {<<"a">>, <<"b">>, <<"x">>, <<"d">>, <<"a", "b">>, <<"z">>}

\* the document with its deleted elements physically removed
Purged(data) ==
    [data EXCEPT !.elements = SelectSeq(@, LAMBDA e : ~e.isDeleted)]

\* C8: no edit removes an element (the list never shrinks and every id
\* stays at its place), a deleted element is never active again nor modified
\* by a later edit, no label lookup matches a deleted element, and
\* diagram_to_spec gives what it gives for the document without its deleted
\* elements.
C8_SoftDeletePermanent ==
    pc = "built" =>
        /\ Len(doc.elements) >= Len(prev)
        /\ \A i \in 1..Len(prev) :
              /\ doc.elements[i].id = prev[i].id
              /\ prev[i].isDeleted => doc.elements[i] = prev[i]
        /\ \A l \in LookupLabels :
              LET m == _match_text(doc.elements, l)
              IN /\ m.text # 0 => ~doc.elements[m.text].isDeleted
                 /\ m.shape # 0 => ~doc.elements[m.shape].isDeleted
        /\ diagram_to_spec(doc, spec) = diagram_to_spec(Purged(doc), spec)

C8_Witness ==
    /\ pc = "built" /\ nops = MaxOps
    /\ last.op = "move" /\ last.err = NoErr
    /\ \E i \in 1..Len(prev) : prev[i].isDeleted /\ prev[i].type = "arrow"
    /\ \E i \in 1..Len(prev) : ~prev[i].isDeleted /\ doc.elements[i] # prev[i]
    /\ C8_SoftDeletePermanent

\* C9: random_id gives an id outside the allocator's set, which holds every
\* id issued by, reserved on or passed as existing_ids to the allocator, and
\* adds it to the set; all element ids of a document reached from build by
\* add-box and connect edits are pairwise distinct.
C9_IdsUnique ==
    pc = "built" =>
        /\ \A i, j \in 1..Len(doc.elements) :
              i # j => doc.elements[i].id # doc.elements[j].id
        /\ FreeIds(doc.elements) >= 1 =>
              \A seed \in 0..(RngMod - 1) :
                 LET f == _build_factory(doc.elements, seed)
                 IN /\ random_id(f).v \notin f.ids
                    /\ random_id(f).f.ids = f.ids \cup {random_id(f).v}

\* the first draw of the last edit's factory hit an id already in the document
C9_Witness ==
    /\ pc = "built" /\ nops = MaxOps
    /\ last.op \in {"add-box", "connect"} /\ last.err = NoErr
    /\ Len(doc.elements) > Len(prev)
    /\ IdPool[RngStep(now % RngMod) + 1] \in ElementIds(prev)
    /\ C9_IdsUnique

(***************************************************************************)
(* Synthesis of the two-node scenario                                     *)
(***************************************************************************)
\* positions of the elements of a type
OfType(elements, t) == {i \in 1..Len(elements) : elements[i].type = t}

\* C11: build of A (rectangle 0,0 200x80 "Start"), B (rectangle 0,200 200x80
\* "End") and one edge A -> B bottom -> top yields exactly 5 elements: 2
\* rectangles with roundness {type: 3}, 2 texts with containerId A and B, and 1
\* arrow at (100, 80) with points [[0,0],[0,120]], width 0, height 120 and
\* roundness {type: 2}.
C11_Scenario ==
    (pc = "built" /\ spec = Scenario) =>
        LET e == doc.elements
        IN /\ Len(e) = 5
           /\ Cardinality(OfType(e, "rectangle")) = 2
           /\ \A i \in OfType(e, "rectangle") : e[i].roundness = [type |-> 3]
           /\ Cardinality(OfType(e, "text")) = 2
           /\ {e[i].containerId : i \in OfType(e, "text")} = {"A", "B"}
           /\ Cardinality(OfType(e, "arrow")) = 1
           /\ \A i \in OfType(e, "arrow") :
                 /\ e[i].x = Float(100) /\ e[i].y = Float(80)
                 /\ e[i].points = <<<<0, 0>>, <<0, Float(120)>>>>
                 /\ e[i].width = 0 /\ e[i].height = Float(120)
                 /\ e[i].roundness = [type |-> 2]

C11_Witness ==
    /\ pc = "built" /\ spec = Scenario /\ last.err = NoErr
    /\ Len(doc.elements) = 5
    /\ \E i \in OfType(doc.elements, "arrow") : doc.elements[i].height = Float(120)

(***************************************************************************)
(* Synthesis determinism: a second invocation of build at another reading  *)
(* of the clock                                                            *)
(***************************************************************************)
\* C12 (as stated): two invocations of build on the same spec give documents
\* identical in every field of every element, `updated` included.
C12_BuildIdenticalEveryField ==
    pc = "built" => \A t \in Times : build(spec, t).doc = doc

\* two documents that agree on everything but the elements' `updated`
SameButUpdated(d1, d2) ==
    /\ [d1 EXCEPT !.elements = <<>>] = [d2 EXCEPT !.elements = <<>>]
    /\ Len(d1.elements) = Len(d2.elements)
    /\ \A i \in 1..Len(d1.elements) :
          [d1.elements[i] EXCEPT !.updated = 0] = [d2.elements[i] EXCEPT !.updated = 0]

\* C12 (amended): two invocations of build on the same spec give documents
\* identical in every field of every element (id, index, seed, versionNonce, ...)
\* except `updated`, which is the clock reading of the invocation; when the
\* spec carries an `updated` override the documents are identical in every
\* field.
C12_BuildDeterministic ==
    pc = "built" =>
        \A t \in Times :
            /\ SameButUpdated(build(spec, t).doc, doc)
            /\ "updated" \in DOMAIN spec => build(spec, t).doc = doc

C12_Witness ==
    /\ pc = "built" /\ "updated" \in DOMAIN spec
    /\ Len(doc.elements) >= 5
    /\ \E i \in 1..Len(doc.elements) : doc.elements[i].id \notin {"A", "B"}
    /\ now # T0 + 1 /\ build(spec, T0 + 1).doc = doc

(***************************************************************************)
(* Extraction followed by re-synthesis                                     *)
(***************************************************************************)
\* diagram_to_spec(build(E), existing_spec = E); the error when build fails
Reextract(E, ts) ==
    IF build(E, ts).err # NoErr THEN [err |-> build(E, ts).err]
    ELSE diagram_to_spec(build(E, ts).doc, E)

\* C13: for every document D, with E = diagram_to_spec(D),
\* diagram_to_spec(build(E), existing_spec = E) is deeply equal to E.
C13_ExtractionFixedPoint ==
    pc = "built" => Reextract(diagram_to_spec(doc, None), now) = diagram_to_spec(doc, None)

\* golden_check.py count_types: active elements per type (0 for an absent type)
count_types(data) ==
    [t \in SUPPORTED_TYPES |->
        Cardinality({i \in 1..Len(data.elements) :
                        ~data.elements[i].isDeleted /\ data.elements[i].type = t})]

\* id, position and size of the active node shapes
NodeBoxes(elements) ==
    { [id |-> elements[i].id, x |-> elements[i].x, y |-> elements[i].y,
       width |-> elements[i].width, height |-> elements[i].height] :
        i \in {j \in 1..Len(elements) :
                  ~elements[j].isDeleted /\ elements[j].type \in NODE_TYPES} }

\* from, to, fromEdge, toEdge of an arrow with both bindings
EdgeEnds(arrow) ==
    <<arrow.startBinding.elementId, arrow.endBinding.elementId,
      infer_edge_from_fixed_point(arrow.startBinding),
      infer_edge_from_fixed_point(arrow.endBinding)>>

\* the endpoints of the active arrows, each with the number of arrows that have it
EdgeEndsOf(elements) ==
    LET arrows == {i \in 1..Len(elements) :
                      /\ ~elements[i].isDeleted /\ elements[i].type = "arrow"
                      /\ elements[i].startBinding # None /\ elements[i].endBinding # None}
    IN { <<EdgeEnds(elements[i]),
           Cardinality({j \in arrows : EdgeEnds(elements[j]) = EdgeEnds(elements[i])})>> :
         i \in arrows }

\* build(diagram_to_spec(D))
Resynthesize(D, ts) == build(diagram_to_spec(D, None), ts)

\* C14: for any document D, build(diagram_to_spec(D)) has the same number of
\* active elements of each type as D, the same node positions and sizes, and
\* the same edge endpoints (from, to, fromEdge, toEdge).
C14_ResynthesisPreserves ==
    pc = "built" =>
        /\ Resynthesize(doc, now).err = NoErr
        /\ count_types(Resynthesize(doc, now).doc) = count_types(doc)
        /\ NodeBoxes(Resynthesize(doc, now).doc.elements) = NodeBoxes(doc.elements)
        /\ EdgeEndsOf(Resynthesize(doc, now).doc.elements) = EdgeEndsOf(doc.elements)

(***************************************************************************)
(* Extraction of a document whose elements list is permuted                *)
(***************************************************************************)
\* the elements list with the elements at positions i and j exchanged
Swapped(elements, i, j) ==
    [k \in 1..Len(elements) |->
        IF k = i THEN elements[j] ELSE IF k = j THEN elements[i] ELSE elements[k]]

\* C15: for any document D and any permutation D' of its elements list,
\* diagram_to_spec(D') = diagram_to_spec(D): same nodes in (y, x, id) order, same
\* edges in the same order with the same labels.  Stated for the permutations
\* that exchange two elements.
C15_ExtractionOrderInsensitive ==
    pc = "built" =>
        \A i, j \in 1..Len(doc.elements) :
            diagram_to_spec([doc EXCEPT !.elements = Swapped(doc.elements, i, j)], None)
                = diagram_to_spec(doc, None)

(***************************************************************************)
(* Which text labels which edge                                            *)
(***************************************************************************)
\* the active arrows that _extract_edges turns into edges, in document order
EdgeArrows(elements) ==
    SelectSeq(active_elements(elements),
        LAMBDA i : /\ elements[i].type = "arrow"
                   /\ build_id_index(elements, BindingId(elements[i].startBinding)) # 0
                   /\ build_id_index(elements, BindingId(elements[i].endBinding)) # 0
                   /\ elements[build_id_index(elements,
                          BindingId(elements[i].startBinding))].type \in NODE_TYPES
                   /\ elements[build_id_index(elements,
                          BindingId(elements[i].endBinding))].type \in NODE_TYPES)

\* the loop of _extract_edges observed at `best`: for each arrow of `arrows`
\* from the k-th on, the position of the text _infer_arrow_label picks (0 for
\* none), given the ids used so far
RECURSIVE LabelPicks(_, _, _, _)
LabelPicks(elements, arrows, k, used) ==
    IF k > Len(arrows) THEN <<>>
    ELSE <<InferLabelLoop(elements, _standalone_texts(elements), 1,
                          ArrowMidpoint(elements[arrows[k]]), used, 0)>>
         \o LabelPicks(elements, arrows, k + 1,
                _infer_arrow_label(elements, elements[arrows[k]],
                                   _standalone_texts(elements), used).used)

\* the edges of the output before edges.sort
RawEdges(elements) ==
    ExtractEdgesLoop([edges |-> <<>>, used |-> {}], elements,
                     active_elements(elements), 1).edges

\* active texts with no container
Standalone(elements) ==
    {i \in 1..Len(elements) :
        /\ elements[i].type = "text" /\ ~elements[i].isDeleted
        /\ elements[i].containerId \in {NoId, ""}}

\* midpoint between the first and the last point of an arrow
FirstLastMid(arrow) ==
    <<arrow.x + Half(arrow.points[1][1] + arrow.points[Len(arrow.points)][1]),
      arrow.y + Half(arrow.points[1][2] + arrow.points[Len(arrow.points)][2])>>

\* squared distance between the centre of a text and the midpoint of an arrow
CentreDist2(text, arrow) ==
    Dist2(<<text.x + Half(text.width), text.y + Half(text.height)>>, FirstLastMid(arrow))

Within64(text, arrow) == CentreDist2(text, arrow) <= Float(64) * Float(64)

\* the standalone texts within reach of the k-th arrow that no earlier arrow took
Candidates(elements, arrows, picks, k) ==
    {u \in Standalone(elements) :
        /\ Within64(elements[u], elements[arrows[k]])
        /\ \A j \in 1..(k - 1) : picks[j] # u}

LabelsAssigned(elements, arrows, picks, raw) ==
    /\ Len(picks) = Len(arrows) /\ Len(raw) = Len(arrows)
    /\ \A k \in 1..Len(arrows) :
          /\ picks[k] = 0 => Candidates(elements, arrows, picks, k) = {}
          /\ picks[k] # 0 =>
                /\ picks[k] \in Candidates(elements, arrows, picks, k)
                /\ \A u \in Candidates(elements, arrows, picks, k) :
                      CentreDist2(elements[picks[k]], elements[arrows[k]])
                          <= CentreDist2(elements[u], elements[arrows[k]])
          /\ IF picks[k] # 0 /\ Strip(elements[picks[k]].text) # <<>>
             THEN /\ "label" \in DOMAIN raw[k]
                  /\ raw[k].label = Strip(elements[picks[k]].text)
             ELSE "label" \notin DOMAIN raw[k]

\* C16: in diagram_to_spec each standalone active text labels at most one
\* edge; the text given to an arrow has its centre within distance 64 of the
\* midpoint between the arrow's first and last point and is the nearest such
\* text not taken by an arrow earlier in document order; an arrow gets no
\* label only when no such text is left; a bound text never labels an edge.
C16_LabelAssignment ==
    pc = "built" =>
        LabelsAssigned(doc.elements, EdgeArrows(doc.elements),
                       LabelPicks(doc.elements, EdgeArrows(doc.elements), 1, {}),
                       RawEdges(doc.elements))

\* the unlabelled first arrow of Crowded takes the nearer caption, listed second
C16_Witness ==
    /\ pc = "built" /\ spec = Crowded
    /\ Len(RawEdges(doc.elements)) = 3
    /\ RawEdges(doc.elements)[1].label = <<"x">>
    /\ RawEdges(doc.elements)[2].label = <<"y">>
    /\ "label" \notin DOMAIN RawEdges(doc.elements)[3]
    /\ Cardinality(Standalone(doc.elements)) = 2

(***************************************************************************)
(* Label lookup                                                            *)
(***************************************************************************)
\* the labels asked for: exact, partial, upper case, padded, absent
MatchLabels ==
    {<<"a">>, <<"b">>, <<"B">>, <<" ", "b">>, <<"x">>, <<"d">>, <<"a", "b">>,
     <<"A", "b">>, <<"z">>}

\* active texts with content
Eligible(elements) ==
    {i \in 1..Len(elements) :
        /\ elements[i].type = "text" /\ ~elements[i].isDeleted
        /\ Strip(elements[i].text) # <<>>}

\* texts whose trimmed content equals / contains the (trimmed) label, case aside
ExactMatches(elements, label) ==
    {i \in Eligible(elements) : Lower(Strip(elements[i].text)) = Lower(Strip(label))}

PartialMatches(elements, label) ==
    {i \in Eligible(elements) :
        Contains(Lower(Strip(elements[i].text)), Lower(Strip(label)))}

First(S) == CHOOSE m \in S : \A n \in S : m <= n

\* C17: _match_text never fails on several matches: it returns the first text
\* in document order whose trimmed content equals the label (trimmed, case
\* aside) if there is one anywhere in the document, otherwise the first text
\* that contains it, otherwise nothing; a deleted text or a text with empty
\* content is never returned.
C17_MatchText ==
    pc = "built" =>
        \A l \in MatchLabels :
            /\ _match_text(doc.elements, l).text \in Eligible(doc.elements) \cup {0}
            /\ _match_text(doc.elements, l).text =
                  IF ExactMatches(doc.elements, l) # {}
                  THEN First(ExactMatches(doc.elements, l))
                  ELSE IF PartialMatches(doc.elements, l) # {}
                  THEN First(PartialMatches(doc.elements, l))
                  ELSE 0

\* an exact match is returned although an active partial match and a deleted
\* exact match come before it
C17_Witness ==
    /\ pc = "built" /\ nops >= 2
    /\ _match_text(doc.elements, <<"B">>).text \in ExactMatches(doc.elements, <<"B">>)
    /\ \E i \in PartialMatches(doc.elements, <<"B">>) :
          i < _match_text(doc.elements, <<"B">>).text
    /\ \E i \in 1..Len(doc.elements) :
          /\ i < _match_text(doc.elements, <<"B">>).text
          /\ doc.elements[i].type = "text" /\ doc.elements[i].isDeleted
          /\ Lower(Strip(doc.elements[i].text)) = <<"b">>
    /\ Cardinality(PartialMatches(doc.elements, <<"B">>)) >= 2

\* no active text with content contains the label
NoMatch(elements, label) == PartialMatches(elements, label) = {}

\* the text the label resolves to is not the label of an active shape
StandaloneMatch(elements, label) ==
    /\ ~NoMatch(elements, label)
    /\ LET t == IF ExactMatches(elements, label) # {}
                THEN First(ExactMatches(elements, label))
                ELSE First(PartialMatches(elements, label))
       IN ~\E j \in 1..Len(elements) :
              /\ ~elements[j].isDeleted
              /\ TruthyId(elements[t].containerId)
              /\ elements[j].id = elements[t].containerId

\* the error a command that needs a shape owes for a label, NoErr for none
ShapeLabelError(elements, label) ==
    IF NoMatch(elements, label) THEN "could not find label"
    ELSE IF StandaloneMatch(elements, label)
    THEN "label is standalone text, not a shape label"
    ELSE NoErr

\* the error an edit with these arguments owes on these elements: the error
\* of the first label that does not resolve
OwedError(elements, op, args) ==
    CASE op \in {"move", "recolor"} -> ShapeLabelError(elements, args.label)
      [] op \in {"relabel", "delete"} ->
            IF NoMatch(elements, args.label) THEN "could not find label" ELSE NoErr
      [] op = "connect" ->
            IF ShapeLabelError(elements, args.from_label) # NoErr
            THEN ShapeLabelError(elements, args.from_label)
            ELSE ShapeLabelError(elements, args.to_label)
      [] OTHER -> NoErr

\* C18: an edit whose label matches no active text (or, for move, recolor and
\* connect, resolves to a standalone text) ends with the error for that label
\* and leaves the document as it was, in every field; in particular a connect
\* whose from-label resolves and whose to-label does not appends no arrow and
\* no boundElements entry.
C18_FailedEditsChangeNothing ==
    [][(nops' = nops + 1 /\ OwedError(doc.elements, last'.op, last'.args) # NoErr)
          => /\ last'.err = OwedError(doc.elements, last'.op, last'.args)
             /\ doc' = doc]_vars

\* a connect has just failed on its to-label although its from-label resolves
\* to a shape
C18_Witness ==
    /\ pc = "built" /\ nops >= 1
    /\ last.op = "connect" /\ last.err = "could not find label"
    /\ ShapeLabelError(prev, last.args.from_label) = NoErr
    /\ NoMatch(prev, last.args.to_label)
    /\ doc.elements = prev

(***************************************************************************)
(* Properties of route_points (checked under SpecRoute)                    *)
(***************************************************************************)
\* C19: for every pair of edge names and every dx, dy the route starts at
\* [0,0] and ends at [dx,dy].
C19_RouteEndsAtTarget ==
    pc = "routed" =>
        /\ out[1] = <<0, 0>>
        /\ out[Len(out)] = <<last.args.dx, last.args.dy>>

\* the routing table: aligned_x / aligned_y say whether the horizontal / the
\* vertical offset counts as aligned
RoutingTable(s, t, dx, dy, aligned_x, aligned_y) ==
    CASE <<s, t>> = <<"bottom", "top">> ->
            IF aligned_x THEN <<<<0, 0>>, <<0, dy>>>>
            ELSE <<<<0, 0>>, <<dx, 0>>, <<dx, dy>>>>
      [] <<s, t>> \in {<<"right", "left">>, <<"left", "right">>} ->
            IF aligned_y THEN <<<<0, 0>>, <<dx, 0>>>>
            ELSE <<<<0, 0>>, <<0, dy>>, <<dx, dy>>>>
      [] <<s, t>> = <<"right", "top">> -> <<<<0, 0>>, <<dx, 0>>, <<dx, dy>>>>
      [] OTHER -> <<<<0, 0>>, <<dx, dy>>>>

\* C20 as stated: the routing table of route_points, an offset being aligned
\* when it is within 10 units (at most 10).
C20_RoutingTableWithin ==
    pc = "routed" =>
        out = RoutingTable(last.args.source_edge, last.args.target_edge,
                           last.args.dx, last.args.dy,
                           Abs(last.args.dx) <= Float(SNAP),
                           Abs(last.args.dy) <= Float(SNAP))

\* C20: the routing table of route_points, an offset being aligned when it is
\* strictly less than 10 units: bottom->top is one vertical segment when the
\* horizontal offset is aligned and an L-shape through [dx,0] otherwise;
\* right->left and left->right are one horizontal segment when the vertical
\* offset is aligned and an L-shape through [0,dy] otherwise; right->top is
\* always the L-shape through [dx,0]; every other pair is the direct segment.
C20_RoutingTableStrict ==
    pc = "routed" =>
        out = RoutingTable(last.args.source_edge, last.args.target_edge,
                           last.args.dx, last.args.dy,
                           Abs(last.args.dx) < Float(SNAP),
                           Abs(last.args.dy) < Float(SNAP))

\* bottom->top with a horizontal offset of exactly 10 has been routed as an
\* L-shape
C20_Witness ==
    /\ pc = "routed"
    /\ last.args.source_edge = "bottom" /\ last.args.target_edge = "top"
    /\ Abs(last.args.dx) = Float(SNAP) /\ last.args.dy # 0
    /\ Len(out) = 3

(***************************************************************************)
(* Properties of reroute_arrow (checked under SpecReroute)                 *)
(***************************************************************************)
\* the element a binding names is present and not deleted
Live(elements, binding) ==
    /\ binding # None
    /\ \E i \in 1..Len(elements) :
          elements[i].id = binding.elementId /\ ~elements[i].isDeleted

\* C21: reroute_arrow returns true exactly when it changed some field of the
\* arrow, and when neither binding resolves to a live element it returns false
\* and leaves the arrow identical in every field.
C21_RerouteReportsChange ==
    pc = "rerouted" =>
        /\ out.changed <=> (out.arrow # last.args.arrow)
        /\ (/\ ~Live(doc.elements, last.args.arrow.startBinding)
            /\ ~Live(doc.elements, last.args.arrow.endBinding))
              => (~out.changed /\ out.arrow = last.args.arrow)

\* the element a live binding names
ShapeOf(elements, binding) ==
    elements[CHOOSE i \in 1..Len(elements) : elements[i].id = binding.elementId]

Manhattan(p, q) == Abs(p[1] - q[1]) + Abs(p[2] - q[2])

\* the anchors a binding may be put on: the midpoint of the edge its fraction
\* names, or without such a fraction a midpoint nearest to the point
Anchors(shape, binding, point) ==
    IF \E e \in EdgeNames : binding.fixedPoint = EDGE_TO_FIXED_POINT(e)
    THEN {edge_point(shape, e) : e \in {f \in EdgeNames :
                                          binding.fixedPoint = EDGE_TO_FIXED_POINT(f)}}
    ELSE {edge_point(shape, e) : e \in {f \in EdgeNames : \A g \in EdgeNames :
              Manhattan(point, edge_point(shape, f))
                  <= Manhattan(point, edge_point(shape, g))}}

\* the largest absolute coordinate k over the points, 0 without points
MaxAbs(points, k) ==
    IF points = <<>> THEN 0
    ELSE CHOOSE m \in {Abs(points[i][k]) : i \in 1..Len(points)} :
            \A i \in 1..Len(points) : Abs(points[i][k]) <= m

BoundsRecomputed(arrow) ==
    /\ arrow.width = MaxAbs(arrow.points, 1)
    /\ arrow.height = MaxAbs(arrow.points, 2)

\* the tip of the arrow before the call: origin plus last point, the origin
\* without points
Tip(arrow) ==
    IF arrow.points = <<>> THEN <<arrow.x, arrow.y>>
    ELSE <<arrow.x + arrow.points[Len(arrow.points)][1],
           arrow.y + arrow.points[Len(arrow.points)][2]>>

OnlySource(elements, arrow) ==
    Live(elements, arrow.startBinding) /\ ~Live(elements, arrow.endBinding)

OnlyTarget(elements, arrow) ==
    ~Live(elements, arrow.startBinding) /\ Live(elements, arrow.endBinding)

\* before, after: the arrow before and after reroute_arrow
SourceRerouted(elements, before, after) ==
    /\ <<after.x, after.y>>
          \in Anchors(ShapeOf(elements, before.startBinding), before.startBinding,
                      <<before.x, before.y>>)
    /\ after.points = before.points
    /\ BoundsRecomputed(after)

TargetRerouted(elements, before, after) ==
    /\ <<after.x, after.y>> = <<before.x, before.y>>
    /\ Len(after.points) >= 2
    /\ Tip(after) \in Anchors(ShapeOf(elements, before.endBinding), before.endBinding,
                              Tip(before))
    /\ IF Len(before.points) < 2
       THEN Len(after.points) = 2 /\ after.points[1] = <<0, 0>>
       ELSE /\ Len(after.points) = Len(before.points)
            /\ \A i \in 1..(Len(before.points) - 1) : after.points[i] = before.points[i]
    /\ BoundsRecomputed(after)

\* C22: with exactly one live endpoint, reroute_arrow puts the live end on the
\* anchor of its shape: with only the source live the origin moves to the
\* anchor and the points keep their offsets; with only the target live the
\* origin and the points before the last stay and the last point becomes
\* anchor - origin, a path of fewer than two points becoming
\* [[0,0],[anchor.x - x, anchor.y - y]]; width and height are recomputed from
\* the resulting points in both cases.
C22_RerouteOneEndpoint ==
    pc = "rerouted" =>
        /\ OnlySource(doc.elements, last.args.arrow)
              => SourceRerouted(doc.elements, last.args.arrow, out.arrow)
        /\ OnlyTarget(doc.elements, last.args.arrow)
              => TargetRerouted(doc.elements, last.args.arrow, out.arrow)

\* only the target is live and the path had fewer than two points: the path
\* has been synthesized
C22_Witness ==
    /\ pc = "rerouted"
    /\ OnlyTarget(doc.elements, last.args.arrow)
    /\ Len(last.args.arrow.points) < 2
    /\ out.arrow.points = <<<<0, 0>>, <<Float(300) - out.arrow.x, Float(240) - out.arrow.y>>>>
    /\ out.arrow.width > 0

\* the edge whose canonical fraction the binding stores, NoId for none
FractionEdge(binding) ==
    IF binding = None THEN NoId
    ELSE IF \E e \in EdgeNames : binding.fixedPoint = EDGE_TO_FIXED_POINT(e)
    THEN CHOOSE e \in EdgeNames : binding.fixedPoint = EDGE_TO_FIXED_POINT(e)
    ELSE NoId

\* the edges whose midpoint is nearest to the point
Nearest(shape, point) ==
    {e \in EdgeNames : \A g \in EdgeNames :
        Manhattan(point, edge_point(shape, e)) <= Manhattan(point, edge_point(shape, g))}

Precedence(e) ==
    CASE e = "top" -> 1 [] e = "bottom" -> 2 [] e = "left" -> 3 [] e = "right" -> 4

\* the edge inference owes for a binding, a shape and a point
EdgeOwed(binding, shape, point) ==
    IF FractionEdge(binding) # NoId THEN FractionEdge(binding)
    ELSE CHOOSE e \in Nearest(shape, point) :
            \A g \in Nearest(shape, point) : Precedence(e) <= Precedence(g)

InferenceOk(binding, shape, point) ==
    /\ infer_edge_from_fixed_point(binding) = FractionEdge(binding)
    /\ infer_edge_by_proximity(shape, point) \in Nearest(shape, point)
    /\ \A g \in Nearest(shape, point) :
          Precedence(infer_edge_by_proximity(shape, point)) <= Precedence(g)

\* C23: infer_edge_from_fixed_point returns the edge whose canonical fraction
\* the binding stores and no edge for any other fraction or a missing binding;
\* infer_edge_by_proximity returns an edge whose midpoint has the minimum
\* Manhattan distance to the point, on a tie the first in the order top,
\* bottom, left, right; reroute_arrow stores the fraction of the edge so
\* inferred on each live end.
C23_EdgeInference ==
    pc = "rerouted" =>
        /\ InferenceOk(last.args.arrow.startBinding, doc.elements[1],
                       <<last.args.arrow.x, last.args.arrow.y>>)
        /\ InferenceOk(last.args.arrow.endBinding, doc.elements[2],
                       Tip(last.args.arrow))
        /\ Live(doc.elements, last.args.arrow.startBinding)
              => out.arrow.startBinding.fixedPoint
                    = EDGE_TO_FIXED_POINT(EdgeOwed(last.args.arrow.startBinding,
                          doc.elements[1], <<last.args.arrow.x, last.args.arrow.y>>))
        /\ Live(doc.elements, last.args.arrow.endBinding)
              => out.arrow.endBinding.fixedPoint
                    = EDGE_TO_FIXED_POINT(EdgeOwed(last.args.arrow.endBinding,
                          doc.elements[2], Tip(last.args.arrow)))

\* a live source without a canonical fraction whose origin is as near to the
\* bottom as to the left midpoint: bottom has been chosen
C23_Witness ==
    /\ pc = "rerouted"
    /\ Live(doc.elements, last.args.arrow.startBinding)
    /\ FractionEdge(last.args.arrow.startBinding) = NoId
    /\ Nearest(doc.elements[1], <<last.args.arrow.x, last.args.arrow.y>>)
          = {"bottom", "left"}
    /\ out.arrow.startBinding.fixedPoint = EDGE_TO_FIXED_POINT("bottom")
    /\ FractionEdge(last.args.arrow.endBinding) = "top"

(***************************************************************************)
(* Invariants of the documents of the edit machine (checked under Spec)    *)
(***************************************************************************)
\* C24: in the built document and after any sequence of edits every arrow has
\* at least two points, its first point is [0,0], its width is the largest
\* absolute x offset and its height the largest absolute y offset over its
\* points, both non-negative.
C24_ArrowGeometry ==
    pc = "built" =>
        \A i \in 1..Len(doc.elements) :
            doc.elements[i].type = "arrow" =>
                /\ Len(doc.elements[i].points) >= 2
                /\ doc.elements[i].points[1] = <<0, 0>>
                /\ doc.elements[i].width = MaxAbs(doc.elements[i].points, 1)
                /\ doc.elements[i].height = MaxAbs(doc.elements[i].points, 2)
                /\ doc.elements[i].width >= 0 /\ doc.elements[i].height >= 0

\* after a move an arrow runs in the negative direction on both axes and
\* reports positive extents
C24_Witness ==
    /\ MovedOk
    /\ \E i \in 1..Len(doc.elements) :
          /\ doc.elements[i].type = "arrow" /\ doc.elements[i] # prev[i]
          /\ \E k \in 1..Len(doc.elements[i].points) :
                doc.elements[i].points[k][1] < 0 /\ doc.elements[i].points[k][2] < 0
          /\ doc.elements[i].width > 0 /\ doc.elements[i].height > 0

\* C25: in the built document and after any sequence of edits every text
\* element has originalText equal to text, verticalAlign "middle" when
\* containerId is set and "top" when it is null, and roundness null.
C25_TextInvariant ==
    pc = "built" =>
        \A i \in 1..Len(doc.elements) :
            doc.elements[i].type = "text" =>
                /\ doc.elements[i].originalText = doc.elements[i].text
                /\ doc.elements[i].verticalAlign =
                      IF doc.elements[i].containerId = NoId THEN "top" ELSE "middle"
                /\ doc.elements[i].roundness = None

\* a relabel has just rewritten a bound label, and the document also holds a
\* standalone text
C25_Witness ==
    /\ pc = "built" /\ last.op = "relabel" /\ last.err = NoErr
    /\ \E i \in 1..Len(doc.elements) :
          /\ doc.elements[i].type = "text" /\ doc.elements[i].containerId # NoId
          /\ doc.elements[i].text = last.args.text
          /\ prev[i].text # last.args.text
    /\ \E j \in 1..Len(doc.elements) :
          doc.elements[j].type = "text" /\ doc.elements[j].containerId = NoId

\* what an element is in the layout: a shape with its id, an arrow with its
\* two ends, a text with its container
Slot(kind, id, container, from, to) ==
    [kind |-> kind, id |-> id, container |-> container, from |-> from, to |-> to]

SlotOf(elem) ==
    IF elem.type = "text" THEN Slot("text", NoId, elem.containerId, NoId, NoId)
    ELSE IF elem.type = "arrow"
    THEN Slot("arrow", NoId, NoId, BindingId(elem.startBinding),
              BindingId(elem.endBinding))
    ELSE Slot("shape", elem.id, NoId, NoId, NoId)

\* the layout the spec's nodes / edges from position i on ask for
RECURSIVE NodeLayout(_, _)
NodeLayout(nodes, i) ==
    IF i > Len(nodes) THEN <<>>
    ELSE <<Slot("shape", nodes[i].id, NoId, NoId, NoId)>>
         \o (IF Get(nodes[i], "label", <<>>) # <<>>
             THEN <<Slot("text", NoId, nodes[i].id, NoId, NoId)>> ELSE <<>>)
         \o NodeLayout(nodes, i + 1)

RECURSIVE EdgeLayout(_, _)
EdgeLayout(edges, i) ==
    IF i > Len(edges) THEN <<>>
    ELSE <<Slot("arrow", NoId, NoId, edges[i].from, edges[i].to)>>
         \o (IF Get(edges[i], "label", <<>>) # <<>>
             THEN <<Slot("text", NoId, NoId, NoId, NoId)>> ELSE <<>>)
         \o EdgeLayout(edges, i + 1)

\* C26, the append order: build emits each node's shape (its id the node's
\* alias) followed by its label, then each edge's arrow followed by its label,
\* and in every document of the edit machine the element at position k
\* (counted from 0) carries index_for_rank(k).
C26_AppendOrder ==
    pc = "built" =>
        /\ nops = 0 =>
              [i \in 1..Len(doc.elements) |-> SlotOf(doc.elements[i])]
                 = NodeLayout(spec.nodes, 1) \o EdgeLayout(spec.edges, 1)
        /\ \A k \in 1..Len(doc.elements) :
              doc.elements[k].index = index_for_rank(k - 1)

\* C26: the indices follow append order, so they are strictly increasing
\* along the elements list: the index issued for the element at position k is
\* index_for_rank(k) and sorts after the index of the element before it.
C26_IndicesIncreasing ==
    (pc = "index" /\ fac.next_rank >= 2) =>
        /\ out = index_for_rank(fac.next_rank - 1)
        /\ LexLess(index_for_rank(fac.next_rank - 2), out)

\* E: an extracted spec.  Its edges name nodes of its node list, and no two
\* nodes share an id
WellFormed(E) ==
    /\ \A k \in 1..Len(E.edges) :
          /\ \E n \in 1..Len(E.nodes) : E.nodes[n].id = E.edges[k].from
          /\ \E n \in 1..Len(E.nodes) : E.nodes[n].id = E.edges[k].to
    /\ \A m, n \in 1..Len(E.nodes) : E.nodes[m].id = E.nodes[n].id => m = n

\* C27: for every document reachable from build by edits, every edge of the
\* extracted spec has from and to among the ids of the extracted nodes, the
\* node ids are pairwise distinct, and build accepts the extracted spec.
C27_ExtractedSpecBuildable ==
    pc = "built" =>
        /\ WellFormed(diagram_to_spec(doc, None))
        /\ build(diagram_to_spec(doc, None), now).err = NoErr

(***************************************************************************)
(* Moves of a built document (checked under SpecBuild)                     *)
(***************************************************************************)
\* what a move may change of an element besides version, versionNonce and
\* updated
Geometry(elem) ==
    [x |-> elem.x, y |-> elem.y, width |-> elem.width, height |-> elem.height,
     points |-> IF elem.type = "arrow" THEN elem.points ELSE <<>>,
     start |-> IF elem.type = "arrow" /\ elem.startBinding # None
               THEN elem.startBinding.fixedPoint ELSE NoPoint,
     end |-> IF elem.type = "arrow" /\ elem.endBinding # None
             THEN elem.endBinding.fixedPoint ELSE NoPoint]

GeometryOf(elements) == [i \in 1..Len(elements) |-> Geometry(elements[i])]

\* the elements after move_shape_and_dependents on the shape at position si
Moved(elements, si, d, ts) ==
    move_shape_and_dependents(elements, si, d[1], d[2],
                              _build_factory(elements, ts), ts).elements

ShapesOf(elements) == {i \in 1..Len(elements) : elements[i].type \in NODE_TYPES}

\* offsets in 1/Q units
MoveOffsets ==
    {<<Float(5), 0>>, <<Float(300), Float(-40)>>, <<Float(-5), Float(30)>>, <<1, -3>>}

Reversible(elements, si, d, ts) ==
    GeometryOf(Moved(Moved(elements, si, d, ts), si, <<0 - d[1], 0 - d[2]>>, ts + 1))
        = GeometryOf(elements)

Additive(elements, si, d, e, ts) ==
    GeometryOf(Moved(Moved(elements, si, d, ts), si, e, ts + 1))
        = GeometryOf(Moved(elements, si, <<d[1] + e[1], d[2] + e[2]>>, ts))

\* C28, for coordinates and offsets that are multiples of 1/Q (sums that
\* floating point represents exactly): on a built document a move of a shape
\* by (dx, dy) followed by a move by (-dx, -dy) restores x, y, width, height,
\* points and fixedPoints of every element, and a move by (a, b) followed by a
\* move by (c, d) leaves the geometry of a single move by (a + c, b + d).
C28_MoveReversibleExact ==
    pc = "built" =>
        \A si \in ShapesOf(doc.elements), d \in MoveOffsets :
            /\ Reversible(doc.elements, si, d, now)
            /\ \A e \in MoveOffsets : Additive(doc.elements, si, d, e, now)

\* the spec S with node n shifted by d (in units)
ShiftedSpec(S, n, d) ==
    [S EXCEPT !.nodes[n] = [x |-> Get(S.nodes[n], "x", 0) + d[1],
                            y |-> Get(S.nodes[n], "y", 0) + d[2]] @@ @]

UnitOffsets == {<<5, 0>>, <<300, -40>>, <<-5, 30>>, <<7, 3>>}

NoEdgeLabels(S) == \A k \in 1..Len(S.edges) : Get(S.edges[k], "label", <<>>) = <<>>

MoveAgrees(S, elements, n, d, ts) ==
    GeometryOf(Moved(elements, build_id_index(elements, S.nodes[n].id),
                     <<Float(d[1]), Float(d[2])>>, ts))
        = GeometryOf(build(ShiftedSpec(S, n, d), ts).doc.elements)

\* C29, for coordinates and offsets that floating point adds exactly: for a
\* valid spec S without edge labels and every node n of S, moving n by
\* (dx, dy) in build(S) gives the geometry of build(S') where S' is S with
\* node n shifted by (dx, dy).
C29_MoveAgreesExact ==
    (pc = "built" /\ NoEdgeLabels(spec)) =>
        \A n \in 1..Len(spec.nodes), d \in UnitOffsets :
            MoveAgrees(spec, doc.elements, n, d, now)

(***************************************************************************)
(* Version history                                                         *)
(***************************************************************************)
\* the fields of an element no operation writes after its creation
Identity(elem) ==
    [id |-> elem.id, type |-> elem.type, index |-> elem.index, seed |-> elem.seed]

\* C30: every element is created with version 1 (by build, add-box and
\* connect); a move, relabel, recolor, delete, add-box or connect leaves each
\* existing element's version as it was or one higher, and its id, type,
\* index and seed as they were; so after n operations every version is
\* between 1 and 1 + n.
C30_VersionMonotone ==
    pc = "built" =>
        /\ nops = 0 => \A i \in 1..Len(doc.elements) : doc.elements[i].version = 1
        /\ \A i \in 1..Len(doc.elements) :
              doc.elements[i].version \in 1..(1 + nops)
        /\ nops >= 1 =>
              /\ Len(prev) <= Len(doc.elements)
              /\ \A i \in 1..Len(prev) :
                    /\ doc.elements[i].version
                          \in {prev[i].version, prev[i].version + 1}
                    /\ Identity(doc.elements[i]) = Identity(prev[i])
              /\ \A i \in (Len(prev) + 1)..Len(doc.elements) :
                    doc.elements[i].version = 1

\* two operations have bumped one element, the second being a move that
\* rerouted an arrow, in a document that also holds an untouched element
C30_Witness ==
    /\ pc = "built" /\ nops >= 2 /\ last.op = "move" /\ last.err = NoErr
    /\ \E i \in 1..Len(prev) :
          /\ prev[i].version = 2
          /\ doc.elements[i].version = 3
    /\ \E i \in 1..Len(prev) :
          /\ prev[i].type = "arrow"
          /\ doc.elements[i].version = prev[i].version + 1
    /\ \E i \in 1..Len(doc.elements) : doc.elements[i].version = 1

(***************************************************************************)
(* Moves in floating point (checked under SpecShift)                       *)
(***************************************************************************)
\* C28: a move by (dx, dy) followed by a move by (-dx, -dy) restores the x of
\* the shape and of its label to their values before the first move, and a
\* move by a followed by a move by c leaves the x of a single move by a + c.
C28_MoveReversible ==
    (pc = "shift" /\ nops = 2) =>
        /\ last.args[2] = FloatNeg(last.args[1]) => out = prev[1]
        /\ out.shape = FloatAdd(prev[1].shape, FloatAdd(last.args[1], last.args[2]))
        /\ out.label = FloatAdd(prev[1].label, FloatAdd(last.args[1], last.args[2]))

\* C29: moving a node by (dx, dy) in build(S) gives the geometry of build(S')
\* where S' is S with the node shifted by (dx, dy): the label of the moved
\* shape is where add_label puts the label of a shape built at the new x.
C29_MoveAgreesWithResynthesis ==
    (pc = "shift" /\ nops = 1) => out.label = FloatAdd(out.shape, Float64(0, 5, 0))

====
